---- MODULE Spec2Model ----
(***************************************************************************)
(* Chat turn coordination of SupabaseService (services/supabaseBackend.ts) *)
(* Several browser clients share one chat_state row (the lock) and one     *)
(* chat_messages table in the remote store.  Every client keeps a cached   *)
(* copy of the lock row, refreshed by fetchChatState.  sendChatMessage is  *)
(* an async function: every await is a suspension point, so its steps      *)
(* interleave with the steps of other calls, of the same or another client.*)
(* A store call (update, insert, select) resolves to { data, error }: it    *)
(* either takes effect or returns an error and changes nothing; it does not *)
(* throw.  sendChatMessage discards these results.                          *)
(*                                                                         *)
(* The same service keeps a local cache of the store's tables and a list   *)
(* of listeners.  The specifications share the variables below, each       *)
(* moving the part of the state its operations touch:                      *)
(*   Spec          the chat turn (sendChatMessage, the lock row);          *)
(*   SpecCache     initializeData, subscribe, notify, logout, fetchers;    *)
(*   SpecActions   one call of any mutation action, with logAction;        *)
(*   SpecToggle    two calls of toggleTaskCompletion / deleteTask;         *)
(*   SpecFetch     fetches of the realtime handlers with their await       *)
(*                 visible, overlapping with each other and an action;     *)
(*   SpecFetchFair the same with weak fairness and successful selects;     *)
(*   SpecPrompt    the history sendChatMessage puts into its prompt;       *)
(*   SpecHours     calculateTotalHours over entered hour texts;            *)
(*   SpecCsv       the CSV text of handleExportCSV.                        *)
(***************************************************************************)
EXTENDS Integers, Sequences, FiniteSets

\* ------------------------------------------------------------------ bounds
\* Number of times one client signs in during a behaviour.
MaxLogins == 1
\* Fetches of one initializeData batch that fail.
MaxFetchFailures == 1
\* subscribe calls one client makes during a behaviour.
MaxSubscriptions == 2
\* Writes committed by users outside the modelled clients during a behaviour.
MaxExternalWrites == 1
\* Longest hoursDedicated text drawn for the first task of calculateTotalHours.
MaxHoursLen == 4
\* Longest plannedActivity text drawn for the first task of the CSV export.
MaxFieldLen == 3

Clients == {"c1", "c2"}
Null == "null"
\* The profile each client signs in with.
UserOf(c) == IF c = "c1" THEN "u1" ELSE "u2"
Users == {UserOf(c) : c \in Clients}
\* The sendChatMessage calls of a behaviour: two, which may overlap in every way.
Calls == {1, 2}
\* Message texts typed by users.
Contents == {"a"}
\* response.text of a successful completion.
AIText == "ai-text"
\* The fixed text inserted by the catch block.
Apology == "Desculpe, ocorreu um erro ao processar sua solicitacao com a IA."

VARIABLES
    lock,         \* store: the chat_state row with id 1
    messages,     \* store: the chat_messages table, in creation order
    currentUser,  \* per client: this.currentUser (a user id or Null)
    initialized,  \* per client: this.initialized
    subscribed,   \* per client: the realtime channel of initializeData is open
    chatState,    \* per client: this.chatState, the cached lock row
    aiConfigured, \* this.ai # null (API_KEY present in the build)
    logins,       \* per client: sign-ins so far
    pc,           \* per call: position inside sendChatMessage
    who,          \* per call: the client that made the call
    content,      \* per call: the content argument
    aiResult,     \* per call: what generateContent did ("none", "text", "error")
    outcome,      \* per call: how the call ended
    seen,         \* per call: what the busy check read from the cache ("none" if not reached)
    claimed,      \* per call, until it returns: its claim write took effect in the store
    db,           \* store: the tables other than chat_state and chat_messages
    cache,        \* per client: this.tasks, boardTasks, logs, sectors, projects, users,
                  \*             chatMessages and settings
    listeners,    \* per client: this.listeners, in registration order
    live,         \* per client: registrations whose unsubscribe has not been called
    nextReg,      \* per client: subscribe calls so far
    invoked,      \* per client: the callbacks run by its latest subscribe or notify, in order
    ipc,          \* per client and initializeData call: position inside the call
    batches,      \* per client: fetch batches issued since the last logout
    extWrites,    \* writes committed by users outside the modelled clients
    events,       \* per client: postgres_changes events delivered to its channel, not yet handled
    apc,          \* per mutation call: position inside the action
    areq,         \* per mutation call: the action, its arguments and what it read from the cache
    aout,         \* per mutation call: how the call ended
    sent,         \* per mutation call: writes it sent to the table it acts on
    fetches,      \* per mutation call: re-fetches of its collection it started
    notes,        \* per mutation call: notify() runs it made
    chatUsers,    \* per client: the user fetchChatMessages attached to each cached message
    prompt,       \* per call: the history lines and the final line handed to generateContent
    selects,      \* per client and fetch: a select of a realtime handler in flight, its rows
    args,         \* the arguments of the pure function under check
    result        \* what that function returned (Null before the call)

vars == <<lock, messages, currentUser, initialized, subscribed, chatState,
          aiConfigured, logins, pc, who, content, aiResult, outcome, seen,
          claimed, db, cache, listeners, live, nextReg, invoked, ipc, batches,
          extWrites, events, apc, areq, aout, sent, fetches, notes, chatUsers,
          prompt, selects, args, result>>

storeVars == <<lock, messages>>
envVars == <<aiConfigured, logins>>
pureVars == <<args, result>>
clientVars == <<currentUser, initialized, subscribed, chatState>>
callVars == <<pc, who, content, aiResult, outcome, seen, claimed, prompt>>
notifierVars == <<listeners, live, nextReg>>
initVars == <<ipc, batches>>
actVars == <<apc, areq, aout, sent, fetches, notes>>
\* Everything outside the chat turn.
dataVars == <<db, cache, chatUsers, notifierVars, invoked, initVars, extWrites, events,
             actVars>>

\* ------------------------------------------------------------------ rows
\* The initial value of this.chatState and the row the release write leaves.
UnlockedRow == [isLocked |-> FALSE, lockedByUserId |-> Null]

\* Faulty variant of ClaimRow: the claim leaves the owner column null.
ClaimRowNoOwner(uid) == [isLocked |-> TRUE, lockedByUserId |-> Null]

\* The row written by the claim update.
ClaimRow(uid) == [isLocked |-> TRUE, lockedByUserId |-> uid]

UserMessage(k, uid, text) == [userId |-> uid, role |-> "user", content |-> text, by |-> k]
ModelMessage(k, text) == [userId |-> Null, role |-> "model", content |-> text, by |-> k]

\* A store call either takes effect or returns an error that leaves the table as it was.
StoreOutcomes == {"ok", "error"}

InFlight == {"claim", "insertUser", "ai", "insertModel", "insertApology", "release"}

\* ------------------------------------------------------------------ tables and cache
\* enum Status.
PENDING == "Pendente"
IN_PROGRESS == "Em Andamento"
COMPLETED == "Concluido"
BLOCKED == "Bloqueado"

\* A row of table tasks / an entry of this.tasks, reduced to the columns the actions
\* below read or compute (mapDbToTask renames the columns and changes no value).
TaskRow(id, st, planned, delivered) ==
    [id |-> id, projectId |-> "p1", status |-> st, plannedActivity |-> planned,
     deliveredActivity |-> delivered]

\* A row of activity_logs as logAction inserts it; by is the mutation call it was
\* inserted for (0: a row of another user).
LogRow(uid, action, k) == [userId |-> uid, action |-> action, by |-> k]

\* A row of board_tasks, reduced to its status column.
BoardRow(id, st) == [id |-> id, status |-> st]

\* .limit(20) of fetchLogs and .limit(50) of fetchChatMessages.
LogLimit == 20
MessageLimit == 50

\* const historyLimit = 10 of sendChatMessage.
HistoryLimit == 10

Min(a, b) == IF a <= b THEN a ELSE b
FirstN(s, n) == SubSeq(s, 1, Min(n, Len(s)))
\* s.slice(-n)
LastN(s, n) == SubSeq(s, Len(s) - Min(n, Len(s)) + 1, Len(s))
Reverse(s) == [i \in 1..Len(s) |-> s[Len(s) + 1 - i]]

\* The store as the clients find it: one task, one board task, two sectors of which
\* s1 is referenced by project p1, the two profiles, one log entry.
InitialDb ==
    [tasks |-> {TaskRow("t1", PENDING, "plan", "")},
     board_tasks |-> {BoardRow("b1", "TODO")},
     sectors |-> {"s1", "s2"},
     projects |-> {[id |-> "p1", sectorId |-> "s1"]},
     profiles |-> Users,
     activity_logs |-> <<LogRow("u2", "CREATE", 0)>>]

\* The collections logout empties.
Collections == {"users", "sectors", "projects", "tasks", "boardTasks", "chatMessages", "logs"}

\* The fields of a freshly constructed service.
ConstructedCache ==
    [f \in Collections \cup {"settings"} |->
        IF f \in {"chatMessages", "logs"} THEN <<>>
        ELSE IF f = "settings" THEN "default" ELSE {}]

\* What the select of each fetcher returns: fetchLogs the 20 latest rows, latest
\* first; fetchChatMessages the first 50 rows in creation order.
FetchResult(f) ==
    CASE f = "users" -> db.profiles
      [] f = "sectors" -> db.sectors
      [] f = "projects" -> db.projects
      [] f = "tasks" -> db.tasks
      [] f = "boardTasks" -> db.board_tasks
      [] f = "chatMessages" -> FirstN(messages, MessageLimit)
      [] f = "logs" -> FirstN(Reverse(db.activity_logs), LogLimit)

\* Faulty variant of Fetched: a failed select empties the field.
FetchedOrCleared(c, f, r) == IF r = "ok" THEN FetchResult(f) ELSE ConstructedCache[f]

\* A fetcher of client c: "if (data) this.f = ..."; a failed select assigns nothing.
Fetched(c, f, r) == IF r = "ok" THEN FetchResult(f) ELSE cache[c][f]

\* fetchChatMessages: "user: this.users.find(u => u.id === msg.user_id)", evaluated
\* on the users cached when the select resolves; Null stands for undefined.
Hydrated(rows, users) ==
    [i \in 1..Len(rows) |-> IF rows[i].userId \in users THEN rows[i].userId ELSE Null]

\* The name column of a profile.
NameOf(uid) ==
    CASE uid = "u1" -> "Ana"
      [] uid = "u2" -> "Bruno"
      [] OTHER -> "Carla"

\* The name sendChatMessage puts before the content of a message without user.
GeminiName == "Gemini AI"


\* The initializeData calls each client makes in a behaviour.
ICalls == {1, 2}

\* The state of every client after construction.
ClientInit ==
    /\ currentUser = [c \in Clients |-> Null]
    /\ initialized = [c \in Clients |-> FALSE]
    /\ subscribed = [c \in Clients |-> FALSE]
    /\ chatState = [c \in Clients |-> UnlockedRow]
    /\ cache = [c \in Clients |-> ConstructedCache]
    /\ chatUsers = [c \in Clients |-> <<>>]
    /\ listeners = [c \in Clients |-> <<>>]
    /\ live = [c \in Clients |-> {}]
    /\ nextReg = [c \in Clients |-> 0]
    /\ invoked = [c \in Clients |-> <<>>]
    /\ ipc = [c \in Clients |-> [i \in ICalls |-> "idle"]]
    /\ batches = [c \in Clients |-> 0]
    /\ events = [c \in Clients |-> {}]

\* No sendChatMessage call has started.
CallInit ==
    /\ pc = [k \in Calls |-> "idle"]
    /\ who = [k \in Calls |-> Null]
    /\ content = [k \in Calls |-> Null]
    /\ aiResult = [k \in Calls |-> "none"]
    /\ outcome = [k \in Calls |-> "none"]
    /\ seen = [k \in Calls |-> "none"]
    /\ claimed = [k \in Calls |-> FALSE]
    /\ prompt = [k \in Calls |-> [sent |-> FALSE]]

\* The mutation calls of a behaviour.
ACalls == {1, 2}

\* No mutation action has been called.
ActInit ==
    /\ apc = [k \in ACalls |-> "idle"]
    /\ areq = [k \in ACalls |-> Null]
    /\ aout = [k \in ACalls |-> "none"]
    /\ sent = [k \in ACalls |-> 0]
    /\ fetches = [k \in ACalls |-> 0]
    /\ notes = [k \in ACalls |-> 0]

\* The fetches a client can have in flight at once.
FCalls == {1, 2}

\* What a select resolves to: { data: rows } or { data: null }.
NoData == [ok |-> FALSE]
Data(rows) == [ok |-> TRUE, data |-> rows]

\* No select is in flight.
IdleSelect == [f |-> Null, at |-> "idle", rows |-> NoData]
SelectInit == selects = [c \in Clients |-> [j \in FCalls |-> IdleSelect]]

\* No pure function has been called; what a function returns.
NoResult == [done |-> FALSE]
Returned(value) == [done |-> TRUE, value |-> value]
PureInit == args = [fn |-> Null] /\ result = NoResult

Init ==
    /\ lock = UnlockedRow
    /\ messages = <<>>
    /\ db = InitialDb
    /\ ClientInit
    /\ CallInit
    /\ aiConfigured \in BOOLEAN
    /\ logins = [c \in Clients |-> 0]
    /\ extWrites = 0
    /\ ActInit
    /\ SelectInit
    /\ PureInit

\* ------------------------------------------------------------------ session
\* fetchChatState: a failed fetch (data = null) leaves the cached row as it was.
FetchedChatState(c, r) == IF r = "ok" THEN lock ELSE chatState[c]

\* Variant of Authenticate with a watchdog: signing in resets the lock row.
AuthenticateResettingLock(c) ==
    /\ currentUser[c] = Null
    /\ logins[c] < MaxLogins
    /\ logins' = [logins EXCEPT ![c] = @ + 1]
    /\ currentUser' = [currentUser EXCEPT ![c] = UserOf(c)]
    /\ lock' = UnlockedRow
    /\ chatState' = [chatState EXCEPT ![c] = UnlockedRow]
    /\ initialized' = [initialized EXCEPT ![c] = TRUE]
    /\ subscribed' = [subscribed EXCEPT ![c] = TRUE]
    /\ UNCHANGED <<dataVars, messages, aiConfigured, pureVars, selects, callVars>>

\* authenticate / checkSession: this.currentUser is set and initializeData is awaited
\* (fetchChatState among its fetches, the ready flag, the realtime channel) before the
\* user reaches the application, so no sendChatMessage call starts in between.
Authenticate(c) ==
    /\ currentUser[c] = Null
    /\ logins[c] < MaxLogins
    /\ logins' = [logins EXCEPT ![c] = @ + 1]
    /\ currentUser' = [currentUser EXCEPT ![c] = UserOf(c)]
    /\ \E r \in StoreOutcomes :
          chatState' = [chatState EXCEPT ![c] = FetchedChatState(c, r)]
    /\ initialized' = [initialized EXCEPT ![c] = TRUE]
    /\ subscribed' = [subscribed EXCEPT ![c] = TRUE]
    /\ UNCHANGED <<dataVars, storeVars, aiConfigured, pureVars, selects, callVars>>

\* The realtime handler of table chat_state: fetchChatState().then(notify).
\* The channel is opened by initializeData and never closed, logout included.
RefreshChatState(c) ==
    /\ subscribed[c]
    /\ \E r \in StoreOutcomes :
          chatState' = [chatState EXCEPT ![c] = FetchedChatState(c, r)]
    /\ invoked' = [invoked EXCEPT ![c] = listeners[c]]
    /\ UNCHANGED <<storeVars, currentUser, initialized, subscribed, envVars, pureVars,
                   selects, callVars, db, cache, chatUsers, notifierVars, initVars, extWrites,
                   events, actVars>>

\* logout (after its await of signOut): clears currentUser, the seven collections
\* and the ready flag, then notify(); this.chatState, this.settings and the
\* listener list are not touched and the realtime channel stays open.
Logout(c) ==
    /\ currentUser[c] # Null
    /\ currentUser' = [currentUser EXCEPT ![c] = Null]
    /\ cache' = [cache EXCEPT ![c] =
           [f \in DOMAIN @ |-> IF f \in Collections THEN ConstructedCache[f] ELSE @[f]]]
    /\ chatUsers' = [chatUsers EXCEPT ![c] = <<>>]
    /\ initialized' = [initialized EXCEPT ![c] = FALSE]
    /\ invoked' = [invoked EXCEPT ![c] = listeners[c]]
    /\ batches' = [batches EXCEPT ![c] = 0]
    /\ UNCHANGED <<storeVars, db, subscribed, chatState, notifierVars, ipc, extWrites, events,
                   envVars, pureVars, selects, callVars, actVars>>

\* ------------------------------------------------------------------ sendChatMessage
\* Call slots are used in order, each once.
NextSlot(k) == pc[k] = "idle" /\ \A j \in Calls : j < k => pc[j] # "idle"

\* Faulty variant of BusyCheck: the cached lock row is not consulted.
BusyCheckSkipped(c) == FALSE

\* The busy check of sendChatMessage on the cached lock row.
BusyCheck(c) == chatState[c].isLocked

\* What the busy check reads: this.chatState.isLocked.
CachedLock(c) == IF chatState[c].isLocked THEN "locked" ELSE "unlocked"

\* The call ends before its first await; it leaves no local state behind.
EndAtEntry(k, c, m, how) ==
    /\ pc' = [pc EXCEPT ![k] = "done"]
    /\ outcome' = [outcome EXCEPT ![k] = how]
    /\ seen' = [seen EXCEPT ![k] = IF how = "busy" THEN CachedLock(c) ELSE "none"]
    /\ UNCHANGED <<dataVars, storeVars, clientVars, envVars, pureVars, selects, who, content,
                   prompt, aiResult, claimed>>

\* if (!this.currentUser) return;
SendNoUser(k, c, m) ==
    /\ NextSlot(k)
    /\ currentUser[c] = Null
    /\ EndAtEntry(k, c, m, "noUser")

\* if (!this.ai) throw
SendNoAI(k, c, m) ==
    /\ NextSlot(k)
    /\ currentUser[c] # Null
    /\ ~aiConfigured
    /\ EndAtEntry(k, c, m, "noAI")

\* Faulty variant of SendBusy: the lock is claimed before the busy check throws.
SendBusyAfterClaim(k, c, m) ==
    /\ NextSlot(k)
    /\ currentUser[c] # Null
    /\ aiConfigured
    /\ BusyCheck(c)
    /\ lock' = ClaimRow(UserOf(c))
    /\ pc' = [pc EXCEPT ![k] = "done"]
    /\ outcome' = [outcome EXCEPT ![k] = "busy"]
    /\ seen' = [seen EXCEPT ![k] = CachedLock(c)]
    /\ UNCHANGED <<dataVars, messages, clientVars, envVars, pureVars, selects, who, content,
                   prompt, aiResult, claimed>>

\* if (this.chatState.isLocked) throw
SendBusy(k, c, m) ==
    /\ NextSlot(k)
    /\ currentUser[c] # Null
    /\ aiConfigured
    /\ BusyCheck(c)
    /\ EndAtEntry(k, c, m, "busy")

\* The checks pass: the claim update is issued (its arguments are evaluated now).
SendClaim(k, c, m) ==
    /\ NextSlot(k)
    /\ currentUser[c] # Null
    /\ aiConfigured
    /\ ~BusyCheck(c)
    /\ pc' = [pc EXCEPT ![k] = "claim"]
    /\ who' = [who EXCEPT ![k] = c]
    /\ content' = [content EXCEPT ![k] = m]
    /\ seen' = [seen EXCEPT ![k] = CachedLock(c)]
    /\ UNCHANGED <<dataVars, storeVars, clientVars, envVars, pureVars, selects, aiResult,
                   outcome, claimed, prompt>>


\* Rows of the store after a write with outcome r.
LockAfterClaim(k, r) == IF r = "ok" THEN ClaimRow(UserOf(who[k])) ELSE lock

LockAfterRelease(r) == IF r = "ok" THEN UnlockedRow ELSE lock

AfterInsert(row, r) == IF r = "ok" THEN Append(messages, row) ELSE messages

\* await chat_state.update({is_locked: true, locked_by_user_id}) resolves; its result
\* is discarded.  The next statement reads this.currentUser.id: a TypeError when a
\* logout ran during the await, which the catch block turns into the apology insert.
ClaimLock(k) ==
    /\ pc[k] = "claim"
    /\ \E r \in StoreOutcomes :
          /\ lock' = LockAfterClaim(k, r)
          /\ claimed' = [claimed EXCEPT ![k] = (r = "ok")]
    /\ pc' = [pc EXCEPT ![k] = IF currentUser[who[k]] = Null THEN "insertApology" ELSE "insertUser"]
    /\ UNCHANGED <<dataVars, messages, clientVars, envVars, pureVars, selects, who, content,
                   prompt, aiResult, outcome, seen>>

\* The lines of historyPrompt: the last HistoryLimit cached messages, each with the
\* name of its hydrated user, or "Gemini AI" when it has none.
HistoryLines(c) ==
    LET shown == LastN(cache[c]["chatMessages"], HistoryLimit)
        users == LastN(chatUsers[c], HistoryLimit)
    IN  [i \in 1..Len(shown) |->
            [name |-> IF users[i] # Null THEN NameOf(users[i]) ELSE GeminiName,
             content |-> shown[i].content]]

\* historyPrompt and currentPrompt as handed to generateContent.
Prompt(c, m) ==
    [sent |-> TRUE,
     history |-> HistoryLines(c),
     last |-> [name |-> NameOf(currentUser[c]), content |-> m]]

\* Faulty variant of InsertUserMessage: the lock is released before the AI is called.
InsertUserMessageReleasing(k) ==
    /\ pc[k] = "insertUser"
    /\ \E r \in StoreOutcomes :
          messages' = AfterInsert(UserMessage(k, UserOf(who[k]), content[k]), r)
    /\ lock' = UnlockedRow
    /\ pc' = [pc EXCEPT ![k] = IF currentUser[who[k]] = Null THEN "insertApology" ELSE "ai"]
    /\ prompt' = [prompt EXCEPT ![k] =
           IF currentUser[who[k]] = Null THEN @ ELSE Prompt(who[k], content[k])]
    /\ UNCHANGED <<dataVars, clientVars, envVars, pureVars, selects, who, content, aiResult,
                   outcome, seen, claimed>>

\* await chat_messages.insert({user_id, role: 'user', content}) resolves; the prompt
\* is then built from this.currentUser.name (TypeError after a logout) and
\* generateContent is called.
InsertUserMessage(k) ==
    /\ pc[k] = "insertUser"
    /\ \E r \in StoreOutcomes :
          messages' = AfterInsert(UserMessage(k, UserOf(who[k]), content[k]), r)
    /\ pc' = [pc EXCEPT ![k] = IF currentUser[who[k]] = Null THEN "insertApology" ELSE "ai"]
    /\ prompt' = [prompt EXCEPT ![k] =
           IF currentUser[who[k]] = Null THEN @ ELSE Prompt(who[k], content[k])]
    /\ UNCHANGED <<dataVars, lock, clientVars, envVars, pureVars, selects, who, content,
                   aiResult, outcome, seen, claimed>>

\* await this.ai.models.generateContent(...) resolves with text or rejects.
GenerateContent(k) ==
    /\ pc[k] = "ai"
    /\ \E a \in {"text", "error"} :
          /\ aiResult' = [aiResult EXCEPT ![k] = a]
          /\ pc' = [pc EXCEPT ![k] = IF a = "text" THEN "insertModel" ELSE "insertApology"]
    /\ UNCHANGED <<dataVars, storeVars, clientVars, envVars, pureVars, selects, who, content,
                   prompt, outcome, seen, claimed>>

\* await chat_messages.insert({user_id: null, role: 'model', content: aiResponseText});
\* the try block ends and the finally block issues the release update.
InsertModelMessage(k) ==
    /\ pc[k] = "insertModel"
    /\ \E r \in StoreOutcomes : messages' = AfterInsert(ModelMessage(k, AIText), r)
    /\ pc' = [pc EXCEPT ![k] = "release"]
    /\ UNCHANGED <<dataVars, lock, clientVars, envVars, pureVars, selects, who, content,
                   prompt, aiResult, outcome, seen, claimed>>

\* catch: await chat_messages.insert({user_id: null, role: 'model', content: <apology>});
\* then the finally block issues the release update.
InsertApology(k) ==
    /\ pc[k] = "insertApology"
    /\ \E r \in StoreOutcomes : messages' = AfterInsert(ModelMessage(k, Apology), r)
    /\ pc' = [pc EXCEPT ![k] = "release"]
    /\ UNCHANGED <<dataVars, lock, clientVars, envVars, pureVars, selects, who, content,
                   prompt, aiResult, outcome, seen, claimed>>

\* finally: await chat_state.update({is_locked: false, locked_by_user_id: null}) resolves,
\* its result is discarded, and sendChatMessage returns to its caller.
ReleaseLock(k) ==
    /\ pc[k] = "release"
    /\ \E r \in StoreOutcomes : lock' = LockAfterRelease(r)
    /\ pc' = [pc EXCEPT ![k] = "done"]
    /\ outcome' = [outcome EXCEPT ![k] = "returned"]
    /\ claimed' = [claimed EXCEPT ![k] = FALSE]
    /\ UNCHANGED <<dataVars, messages, clientVars, envVars, pureVars, selects, who, content,
                   prompt, aiResult, seen>>

\* The client's process terminates (tab closed or reloaded) while a call of it is in
\* flight: none of its calls takes another step, and the page starts again from the
\* constructor's state.
Terminate(c) ==
    /\ \E k \in Calls : who[k] = c /\ pc[k] \in InFlight
    /\ pc' = [k \in Calls |-> IF who[k] = c /\ pc[k] \in InFlight THEN "dead" ELSE pc[k]]
    /\ aiResult' = [k \in Calls |-> IF who[k] = c /\ pc[k] \in InFlight THEN "none" ELSE aiResult[k]]
    /\ currentUser' = [currentUser EXCEPT ![c] = Null]
    /\ initialized' = [initialized EXCEPT ![c] = FALSE]
    /\ subscribed' = [subscribed EXCEPT ![c] = FALSE]
    /\ chatState' = [chatState EXCEPT ![c] = UnlockedRow]
    /\ UNCHANGED <<dataVars, storeVars, envVars, pureVars, selects, who, content, prompt,
                   outcome, seen, claimed>>

Next ==
    \/ \E c \in Clients : Authenticate(c)
    \/ \E c \in Clients : RefreshChatState(c)
    \/ \E c \in Clients : Logout(c)
    \/ \E k \in Calls, c \in Clients, m \in Contents : SendNoUser(k, c, m)
    \/ \E k \in Calls, c \in Clients, m \in Contents : SendNoAI(k, c, m)
    \/ \E k \in Calls, c \in Clients, m \in Contents : SendBusy(k, c, m)
    \/ \E k \in Calls, c \in Clients, m \in Contents : SendClaim(k, c, m)
    \/ \E k \in Calls : ClaimLock(k)
    \/ \E k \in Calls : InsertUserMessage(k)
    \/ \E k \in Calls : GenerateContent(k)
    \/ \E k \in Calls : InsertModelMessage(k)
    \/ \E k \in Calls : InsertApology(k)
    \/ \E k \in Calls : ReleaseLock(k)
    \/ \E c \in Clients : Terminate(c)

Spec == Init /\ [][Next]_vars



\* ------------------------------------------------------------------ cache and notifier
\* The client whose cache SpecCache follows.
CacheClients == {"c1"}

\* The functions handed to subscribe.
Callbacks == {"f", "g"}

\* The n-th subscribe call of a client, made with function fn.
Registration(fn, n) == [fn |-> fn, reg |-> n]

\* The cached fields a postgres_changes event makes its handler re-fetch.
Watched == Collections \cup {"chatState"}


\* initializeData up to its await: it returns at once when the ready flag is set,
\* and issues the batch of fetches otherwise.
EnterInitializeData(c, i) ==
    /\ ipc[c][i] = "idle" /\ \A j \in ICalls : j < i => ipc[c][j] # "idle"
    /\ IF initialized[c]
         THEN UNCHANGED <<ipc, batches>>
         ELSE /\ ipc' = [ipc EXCEPT ![c][i] = "fetching"]
              /\ batches' = [batches EXCEPT ![c] = @ + 1]

\* authenticate / checkSession: the profile is found, this.currentUser is set and
\* initializeData is called.
SignIn(c, i) ==
    /\ currentUser' = [currentUser EXCEPT ![c] = UserOf(c)]
    /\ EnterInitializeData(c, i)
    /\ UNCHANGED <<storeVars, db, initialized, subscribed, chatState, cache, chatUsers,
                   notifierVars, invoked, extWrites, events, envVars, pureVars, selects,
                   callVars, actVars>>

\* The load-data effect of App, run when a user is logged in: backend.initializeData().
EffectInitializeData(c, i) ==
    /\ currentUser[c] # Null
    /\ EnterInitializeData(c, i)
    /\ UNCHANGED <<storeVars, db, clientVars, cache, chatUsers, notifierVars, invoked,
                   extWrites, events, envVars, pureVars, selects, callVars, actVars>>

\* initializeData after its await: every fetch of the batch has resolved, each one
\* having assigned its field unless it failed; the ready flag is set, notify() runs
\* and the realtime channel is opened.
InitializeDataResolve(c, i) ==
    /\ ipc[c][i] = "fetching"
    /\ \E F \in SUBSET Watched :
          /\ Cardinality(F) <= MaxFetchFailures
          /\ cache' = [cache EXCEPT ![c] =
                 [f \in DOMAIN cache[c] |->
                     IF f = "settings" THEN "stamped"
                     ELSE Fetched(c, f, IF f \in F THEN "error" ELSE "ok")]]
          /\ chatState' = [chatState EXCEPT ![c] =
                 FetchedChatState(c, IF "chatState" \in F THEN "error" ELSE "ok")]
          /\ \E users \in {cache[c]["users"], cache'[c]["users"]} :
                 chatUsers' = [chatUsers EXCEPT ![c] =
                     IF "chatMessages" \in F THEN @
                     ELSE Hydrated(FetchResult("chatMessages"), users)]
    /\ initialized' = [initialized EXCEPT ![c] = TRUE]
    /\ invoked' = [invoked EXCEPT ![c] = listeners[c]]
    /\ subscribed' = [subscribed EXCEPT ![c] = TRUE]
    /\ ipc' = [ipc EXCEPT ![c][i] = "idle"]
    /\ UNCHANGED <<storeVars, db, currentUser, notifierVars, batches, extWrites, events,
                   envVars, pureVars, selects, callVars, actVars>>

\* Variant of Subscribe that runs the callback whatever the ready flag says.
SubscribeAlwaysCalling(c, fn) ==
    /\ nextReg[c] < MaxSubscriptions
    /\ nextReg' = [nextReg EXCEPT ![c] = @ + 1]
    /\ listeners' = [listeners EXCEPT ![c] = Append(@, Registration(fn, nextReg[c] + 1))]
    /\ live' = [live EXCEPT ![c] = @ \cup {Registration(fn, nextReg[c] + 1)}]
    /\ invoked' = [invoked EXCEPT ![c] = <<Registration(fn, nextReg[c] + 1)>>]
    /\ UNCHANGED <<storeVars, db, clientVars, cache, chatUsers, initVars, extWrites, events,
                   envVars, pureVars, selects, callVars, actVars>>

\* subscribe: push the callback, call it if the cache is ready.
Subscribe(c, fn) ==
    /\ nextReg[c] < MaxSubscriptions
    /\ nextReg' = [nextReg EXCEPT ![c] = @ + 1]
    /\ listeners' = [listeners EXCEPT ![c] = Append(@, Registration(fn, nextReg[c] + 1))]
    /\ live' = [live EXCEPT ![c] = @ \cup {Registration(fn, nextReg[c] + 1)}]
    /\ invoked' = [invoked EXCEPT ![c] =
           IF initialized[c] THEN <<Registration(fn, nextReg[c] + 1)>> ELSE <<>>]
    /\ UNCHANGED <<storeVars, db, clientVars, cache, chatUsers, initVars, extWrites, events,
                   envVars, pureVars, selects, callVars, actVars>>

\* What the filter of an unsubscribe closure keeps: cb !== callback compares functions.
KeptByUnsubscribe(ls, r) == SelectSeq(ls, LAMBDA x : x.fn # r.fn)

\* The closure returned by the subscribe call of registration r, called once.
Unsubscribe(c, r) ==
    /\ r \in live[c]
    /\ live' = [live EXCEPT ![c] = @ \ {r}]
    /\ listeners' = [listeners EXCEPT ![c] = KeptByUnsubscribe(@, r)]
    /\ UNCHANGED <<storeVars, db, clientVars, cache, chatUsers, nextReg, invoked, initVars,
                   extWrites, events, envVars, pureVars, selects, callVars, actVars>>

\* What a user outside the modelled clients writes to the table behind f: an
\* inserted row, and for tasks also an updateTask of t1 with deliveredActivity.
ExternalChange(f) ==
    CASE f = "users" -> [db EXCEPT !.profiles = @ \cup {"u3"}]
      [] f = "sectors" -> [db EXCEPT !.sectors = @ \cup {"s3"}]
      [] f = "projects" -> [db EXCEPT !.projects = @ \cup {[id |-> "p2", sectorId |-> "s2"]}]
      [] f = "tasks" ->
            [db EXCEPT !.tasks =
                {IF t.id = "t1" THEN [t EXCEPT !.deliveredActivity = "theirs"] ELSE t : t \in @}
                \cup {TaskRow("t2", IN_PROGRESS, "plan2", "")}]
      [] f = "boardTasks" -> [db EXCEPT !.board_tasks = @ \cup {BoardRow("b2", "DOING")}]
      [] f = "logs" -> [db EXCEPT !.activity_logs = Append(@, LogRow("u2", "UPDATE", 0))]
      [] OTHER -> db

\* A write by another user is committed; the store sends a postgres_changes event
\* to every open channel.
ExternalWrite(f) ==
    /\ extWrites < MaxExternalWrites
    /\ extWrites' = extWrites + 1
    /\ db' = ExternalChange(f)
    /\ messages' = IF f = "chatMessages" THEN Append(messages, UserMessage(0, "u2", "a"))
                   ELSE messages
    /\ lock' = IF f = "chatState" THEN ClaimRow("u2") ELSE lock
    /\ events' = [c \in Clients |-> IF subscribed[c] THEN events[c] \cup {f} ELSE events[c]]
    /\ UNCHANGED <<clientVars, cache, chatUsers, notifierVars, invoked, initVars, envVars,
                   pureVars, selects, callVars, actVars>>

\* A handler of the realtime channel: fetchX().then(() => this.notify()).
RealtimeRefresh(c, f) ==
    /\ f \in events[c]
    /\ events' = [events EXCEPT ![c] = @ \ {f}]
    /\ \E r \in StoreOutcomes :
          /\ cache' = [cache EXCEPT ![c] =
                 IF f = "chatState" THEN @ ELSE [@ EXCEPT ![f] = Fetched(c, f, r)]]
          /\ chatState' = [chatState EXCEPT ![c] =
                 IF f = "chatState" THEN FetchedChatState(c, r) ELSE @]
          /\ chatUsers' = [chatUsers EXCEPT ![c] =
                 IF f = "chatMessages" /\ r = "ok"
                   THEN Hydrated(FetchResult(f), cache[c]["users"]) ELSE @]
    /\ invoked' = [invoked EXCEPT ![c] = listeners[c]]
    /\ UNCHANGED <<storeVars, db, currentUser, initialized, subscribed, notifierVars,
                   initVars, extWrites, envVars, pureVars, selects, callVars, actVars>>

\* The store holds one chat message when the client starts.
InitCache ==
    /\ lock = UnlockedRow
    /\ messages = <<UserMessage(0, "u2", "a")>>
    /\ db = InitialDb
    /\ ClientInit
    /\ CallInit
    /\ aiConfigured = TRUE
    /\ logins = [c \in Clients |-> 0]
    /\ extWrites = 0
    /\ ActInit
    /\ SelectInit
    /\ PureInit

NextCache ==
    \/ \E c \in CacheClients, i \in ICalls : SignIn(c, i)
    \/ \E c \in CacheClients, i \in ICalls : EffectInitializeData(c, i)
    \/ \E c \in CacheClients, i \in ICalls : InitializeDataResolve(c, i)
    \/ \E c \in CacheClients, fn \in Callbacks : Subscribe(c, fn)
    \/ \E c \in CacheClients, fn \in Callbacks, n \in 1..MaxSubscriptions :
          Unsubscribe(c, Registration(fn, n))
    \/ \E f \in Watched : ExternalWrite(f)
    \/ \E c \in CacheClients, f \in Watched : RealtimeRefresh(c, f)
    \/ \E c \in CacheClients : Logout(c)

SpecCache == InitCache /\ [][NextCache]_vars


\* ------------------------------------------------------------------ mutation actions
\* The client whose mutation calls SpecActions follows.
Actor == "c1"

\* The calls the views make: the action, the id or foreign key it is given and, for
\* the two update actions, the fields of the updates argument.
Request(op, id, updates) == [op |-> op, id |-> id, updates |-> updates, read |-> Null]
NoUpdates == [status |-> Null, deliveredActivity |-> Null]
Requests ==
    {Request(op, Null, NoUpdates) :
        op \in {"createTask", "createBoardTask", "createSector", "createUser"}}
    \cup {Request("updateTask", "t1", [status |-> IN_PROGRESS, deliveredActivity |-> ""])}
    \cup {Request("updateTask", "t1", [status |-> Null, deliveredActivity |-> "new"])}
    \cup {Request(op, "t1", NoUpdates) : op \in {"toggleTaskCompletion", "deleteTask"}}
    \cup {Request("updateBoardTask", "b1", [status |-> "DONE", deliveredActivity |-> Null])}
    \cup {Request("deleteBoardTask", "b1", NoUpdates)}
    \cup {Request("deleteSector", sid, NoUpdates) : sid \in {"s1", "s2"}}
    \cup {Request("createProject", "s2", NoUpdates)}
    \cup {Request("deleteProject", "p1", NoUpdates)}
    \cup {Request("deleteUser", "u2", NoUpdates)}

\* The id the store gives the row inserted by call k.
NewId(k) == IF k = 1 THEN "n1" ELSE "n2"

\* The table an action writes and the cache field it re-fetches.
TableOf(op) ==
    CASE op \in {"createTask", "updateTask", "toggleTaskCompletion", "deleteTask"} -> "tasks"
      [] op \in {"createBoardTask", "updateBoardTask", "deleteBoardTask"} -> "board_tasks"
      [] op \in {"createSector", "deleteSector"} -> "sectors"
      [] op \in {"createProject", "deleteProject"} -> "projects"
      [] op \in {"createUser", "deleteUser"} -> "profiles"
FieldOf(op) ==
    CASE TableOf(op) = "tasks" -> "tasks"
      [] TableOf(op) = "board_tasks" -> "boardTasks"
      [] TableOf(op) = "sectors" -> "sectors"
      [] TableOf(op) = "projects" -> "projects"
      [] TableOf(op) = "profiles" -> "users"

\* The first argument of the logAction call that ends the action, Null for the
\* actions that end with notify(): updateBoardTask and the sector, project and
\* user actions.  toggleTaskCompletion logs through updateTask.
LogActionOf(op) ==
    CASE op \in {"createTask", "createBoardTask"} -> "CREATE"
      [] op \in {"updateTask", "toggleTaskCompletion"} -> "UPDATE"
      [] op \in {"deleteTask", "deleteBoardTask"} -> "DELETE"
      [] OTHER -> Null

\* "if (updates.x) dbUpdates.x = updates.x": a missing or empty value is not sent.
Truthy(v) == v # Null /\ v # ""

\* Faulty variant of UpdatedTask: every field present in updates is written, the
\* empty text included.
UpdatedTaskOverwriting(row, updates) ==
    [row EXCEPT !.status = IF updates.status # Null THEN updates.status ELSE @,
                !.deliveredActivity = IF updates.deliveredActivity # Null
                                        THEN updates.deliveredActivity ELSE @]

\* The task row after update(dbUpdates).eq('id', id) of updateTask.
UpdatedTask(row, updates) ==
    [row EXCEPT !.status = IF Truthy(updates.status) THEN updates.status ELSE @,
                !.deliveredActivity = IF Truthy(updates.deliveredActivity)
                                        THEN updates.deliveredActivity ELSE @]

\* Faulty variant of NewStatus: the toggle always completes the task.
NewStatusAlwaysCompleted(task) == COMPLETED

\* toggleTaskCompletion: the status and deliveredActivity it hands to updateTask,
\* computed from the cached task.
NewStatus(task) == IF task.status = COMPLETED THEN PENDING ELSE COMPLETED
NewDelivered(task) ==
    IF NewStatus(task) = COMPLETED /\ ~Truthy(task.deliveredActivity)
      THEN task.plannedActivity
      ELSE task.deliveredActivity
ToggleUpdates(task) == [status |-> NewStatus(task), deliveredActivity |-> NewDelivered(task)]

\* The store refuses a delete of a row other rows reference, and an insert whose
\* foreign key names no row.
Rejected(req) ==
    CASE req.op = "deleteSector" -> \E p \in db.projects : p.sectorId = req.id
      [] req.op = "deleteProject" -> \E t \in db.tasks : t.projectId = req.id
      [] req.op = "createProject" -> req.id \notin db.sectors
      [] OTHER -> FALSE

\* The tables after the write of call k has taken effect.
Written(k, req) ==
    CASE req.op = "createTask" ->
            [db EXCEPT !.tasks = @ \cup {TaskRow(NewId(k), PENDING, "plan", "")}]
      [] req.op \in {"updateTask", "toggleTaskCompletion"} ->
            [db EXCEPT !.tasks =
                {IF t.id = req.id THEN UpdatedTask(t, req.updates) ELSE t : t \in @}]
      [] req.op = "deleteTask" -> [db EXCEPT !.tasks = {t \in @ : t.id # req.id}]
      [] req.op = "createBoardTask" ->
            [db EXCEPT !.board_tasks = @ \cup {BoardRow(NewId(k), "TODO")}]
      [] req.op = "updateBoardTask" ->
            [db EXCEPT !.board_tasks =
                {IF b.id = req.id /\ Truthy(req.updates.status)
                   THEN [b EXCEPT !.status = req.updates.status] ELSE b : b \in @}]
      [] req.op = "deleteBoardTask" ->
            [db EXCEPT !.board_tasks = {b \in @ : b.id # req.id}]
      [] req.op = "createSector" -> [db EXCEPT !.sectors = @ \cup {NewId(k)}]
      [] req.op = "deleteSector" -> [db EXCEPT !.sectors = @ \ {req.id}]
      [] req.op = "createProject" ->
            [db EXCEPT !.projects = @ \cup {[id |-> NewId(k), sectorId |-> req.id]}]
      [] req.op = "deleteProject" -> [db EXCEPT !.projects = {q \in @ : q.id # req.id}]
      [] req.op = "createUser" -> [db EXCEPT !.profiles = @ \cup {NewId(k)}]
      [] req.op = "deleteUser" -> [db EXCEPT !.profiles = @ \ {req.id}]

\* What the caller of a failed action catches: the delete actions of sectors,
\* projects and users throw their own fixed message, the task and board actions wrap
\* the store's message, the remaining actions rethrow the store's error.
ErrorOf(op) ==
    CASE op = "deleteSector" ->
            "Nao e possivel excluir este setor. Verifique se existem projetos vinculados a ele."
      [] op = "deleteProject" ->
            "Nao e possivel excluir este projeto. Verifique se existem tarefas vinculadas a ele."
      [] op = "deleteUser" ->
            "Nao e possivel excluir este usuario. Verifique se ele possui tarefas atribuidas."
      [] op \in {"createSector", "createProject", "createUser"} -> "store error"
      [] OTHER -> "Erro: store error"

\* The events a committed write sends to the open channels.
Delivered(f) == [c \in Clients |-> IF subscribed[c] THEN events[c] \cup {f} ELSE events[c]]

NextACall(k) == apc[k] = "idle" /\ \A j \in ACalls : j < k => apc[j] # "idle"

\* toggleTaskCompletion of a task the cache does not hold: "if (!task) return".
ToggleAbsent(k, req) ==
    /\ NextACall(k)
    /\ currentUser[Actor] # Null
    /\ req.op = "toggleTaskCompletion"
    /\ \A t \in cache[Actor]["tasks"] : t.id # req.id
    /\ apc' = [apc EXCEPT ![k] = "done"]
    /\ aout' = [aout EXCEPT ![k] = "nothing"]
    /\ areq' = [areq EXCEPT ![k] = req]
    /\ UNCHANGED <<storeVars, db, clientVars, cache, chatUsers, notifierVars, invoked,
                   initVars, extWrites, events, envVars, pureVars, selects, callVars, sent,
                   fetches, notes>>

\* An action up to its first await: the write is sent.  toggleTaskCompletion first
\* finds the task in this.tasks and computes the updates from it.
CallAction(k, req) ==
    /\ NextACall(k)
    /\ currentUser[Actor] # Null
    /\ IF req.op = "toggleTaskCompletion"
         THEN \E t \in cache[Actor]["tasks"] :
                 /\ t.id = req.id
                 /\ areq' = [areq EXCEPT ![k] =
                        [req EXCEPT !.updates = ToggleUpdates(t), !.read = t]]
         ELSE areq' = [areq EXCEPT ![k] = req]
    /\ apc' = [apc EXCEPT ![k] = "write"]
    /\ sent' = [sent EXCEPT ![k] = @ + 1]
    /\ UNCHANGED <<storeVars, db, clientVars, cache, chatUsers, notifierVars, invoked,
                   initVars, extWrites, events, envVars, pureVars, selects, callVars, aout,
                   fetches, notes>>

\* Variant of WriteResolve with the re-fetch and notify() in a finally block.
WriteResolveThenRefresh(k) ==
    /\ apc[k] = "write"
    /\ \E r \in StoreOutcomes :
          /\ Rejected(areq[k]) => r = "error"
          /\ db' = IF r = "ok" THEN Written(k, areq[k]) ELSE db
          /\ events' = IF r = "ok" THEN Delivered(FieldOf(areq[k].op)) ELSE events
          /\ aout' = [aout EXCEPT ![k] = IF r = "ok" THEN "returned" ELSE ErrorOf(areq[k].op)]
    /\ cache' = [cache EXCEPT ![Actor][FieldOf(areq[k].op)] = FetchResult(FieldOf(areq[k].op))]
    /\ invoked' = [invoked EXCEPT ![Actor] = listeners[Actor]]
    /\ apc' = [apc EXCEPT ![k] = "done"]
    /\ fetches' = [fetches EXCEPT ![k] = @ + 1]
    /\ notes' = [notes EXCEPT ![k] = @ + 1]
    /\ UNCHANGED <<storeVars, currentUser, initialized, subscribed, chatState, chatUsers,
                   notifierVars, initVars, extWrites, envVars, pureVars, selects, callVars,
                   areq, sent>>

\* Variant of WriteResolve that goes on to the re-fetch whatever the store answered.
WriteResolveIgnoringError(k) ==
    /\ apc[k] = "write"
    /\ \E r \in StoreOutcomes :
          /\ Rejected(areq[k]) => r = "error"
          /\ db' = IF r = "ok" THEN Written(k, areq[k]) ELSE db
          /\ events' = IF r = "ok" THEN Delivered(FieldOf(areq[k].op)) ELSE events
    /\ apc' = [apc EXCEPT ![k] = "refetch"]
    /\ fetches' = [fetches EXCEPT ![k] = @ + 1]
    /\ UNCHANGED <<storeVars, clientVars, cache, chatUsers, notifierVars, invoked, initVars,
                   extWrites, envVars, pureVars, selects, callVars, areq, aout, sent, notes>>

\* Variant of WriteResolve that sends a failed write once more before it throws.
WriteResolveRetrying(k) ==
    /\ apc[k] = "write"
    /\ \E r \in StoreOutcomes :
          /\ Rejected(areq[k]) => r = "error"
          /\ IF r = "ok"
               THEN /\ db' = Written(k, areq[k])
                    /\ events' = Delivered(FieldOf(areq[k].op))
                    /\ apc' = [apc EXCEPT ![k] = "refetch"]
                    /\ fetches' = [fetches EXCEPT ![k] = @ + 1]
                    /\ UNCHANGED <<aout, sent>>
               ELSE /\ IF sent[k] < 2
                         THEN /\ sent' = [sent EXCEPT ![k] = @ + 1]
                              /\ UNCHANGED <<apc, aout>>
                         ELSE /\ apc' = [apc EXCEPT ![k] = "done"]
                              /\ aout' = [aout EXCEPT ![k] = ErrorOf(areq[k].op)]
                              /\ UNCHANGED sent
                    /\ UNCHANGED <<db, events, fetches>>
    /\ UNCHANGED <<storeVars, clientVars, cache, chatUsers, notifierVars, invoked, initVars,
                   extWrites, envVars, pureVars, selects, callVars, areq, notes>>

\* The write resolves.  "if (error) throw": a refused or failed write ends the
\* action; otherwise the re-fetch of the collection is sent.
WriteResolve(k) ==
    /\ apc[k] = "write"
    /\ \E r \in StoreOutcomes :
          /\ Rejected(areq[k]) => r = "error"
          /\ IF r = "ok"
               THEN /\ db' = Written(k, areq[k])
                    /\ events' = Delivered(FieldOf(areq[k].op))
                    /\ apc' = [apc EXCEPT ![k] = "refetch"]
                    /\ fetches' = [fetches EXCEPT ![k] = @ + 1]
                    /\ UNCHANGED aout
               ELSE /\ apc' = [apc EXCEPT ![k] = "done"]
                    /\ aout' = [aout EXCEPT ![k] = ErrorOf(areq[k].op)]
                    /\ UNCHANGED <<db, events, fetches>>
    /\ UNCHANGED <<storeVars, clientVars, cache, chatUsers, notifierVars, invoked, initVars,
                   extWrites, envVars, pureVars, selects, callVars, areq, sent, notes>>

\* The re-fetch resolves and notify() runs; then the action returns, or calls
\* logAction, which returns at once without a user and sends its insert otherwise.
RefetchResolve(k) ==
    /\ apc[k] = "refetch"
    /\ \E r \in StoreOutcomes :
          cache' = [cache EXCEPT ![Actor][FieldOf(areq[k].op)] =
                       Fetched(Actor, FieldOf(areq[k].op), r)]
    /\ invoked' = [invoked EXCEPT ![Actor] = listeners[Actor]]
    /\ notes' = [notes EXCEPT ![k] = @ + 1]
    /\ IF LogActionOf(areq[k].op) # Null /\ currentUser[Actor] # Null
         THEN apc' = [apc EXCEPT ![k] = "log"] /\ UNCHANGED aout
         ELSE apc' = [apc EXCEPT ![k] = "done"] /\ aout' = [aout EXCEPT ![k] = "returned"]
    /\ UNCHANGED <<storeVars, db, clientVars, chatUsers, notifierVars, initVars, extWrites,
                   events, envVars, pureVars, selects, callVars, areq, sent, fetches>>

\* logAction: its insert resolves, the result is not looked at, fetchLogs is sent.
LogInsertResolve(k) ==
    /\ apc[k] = "log"
    /\ \E r \in StoreOutcomes :
          IF r = "ok"
            THEN /\ db' = [db EXCEPT !.activity_logs =
                              Append(@, LogRow(UserOf(Actor), LogActionOf(areq[k].op), k))]
                 /\ events' = Delivered("logs")
            ELSE UNCHANGED <<db, events>>
    /\ apc' = [apc EXCEPT ![k] = "fetchLogs"]
    /\ UNCHANGED <<storeVars, clientVars, cache, chatUsers, notifierVars, invoked, initVars,
                   extWrites, envVars, pureVars, selects, callVars, areq, aout, sent, fetches,
                   notes>>

\* logAction: fetchLogs resolves, notify() runs, the action returns.
LogFetchResolve(k) ==
    /\ apc[k] = "fetchLogs"
    /\ \E r \in StoreOutcomes :
          cache' = [cache EXCEPT ![Actor]["logs"] = Fetched(Actor, "logs", r)]
    /\ invoked' = [invoked EXCEPT ![Actor] = listeners[Actor]]
    /\ notes' = [notes EXCEPT ![k] = @ + 1]
    /\ apc' = [apc EXCEPT ![k] = "done"]
    /\ aout' = [aout EXCEPT ![k] = "returned"]
    /\ UNCHANGED <<storeVars, db, clientVars, chatUsers, notifierVars, initVars, extWrites,
                   events, envVars, pureVars, selects, callVars, areq, sent, fetches>>


\* The actor has signed in, initializeData has filled its cache and opened the
\* channel, and the view has subscribed.
InitActions ==
    /\ lock = UnlockedRow
    /\ messages = <<>>
    /\ \E st \in {PENDING, IN_PROGRESS, COMPLETED, BLOCKED}, d \in {"", "done"} :
          db = [InitialDb EXCEPT !.tasks = {TaskRow("t1", st, "plan", d)}]
    /\ currentUser = [c \in Clients |-> IF c = Actor THEN UserOf(c) ELSE Null]
    /\ initialized = [c \in Clients |-> c = Actor]
    /\ subscribed = [c \in Clients |-> c = Actor]
    /\ chatState = [c \in Clients |-> UnlockedRow]
    /\ cache = [c \in Clients |->
                   IF c = Actor
                     THEN [f \in DOMAIN ConstructedCache |->
                              IF f = "settings" THEN "stamped" ELSE FetchResult(f)]
                     ELSE ConstructedCache]
    /\ listeners = [c \in Clients |-> IF c = Actor THEN <<Registration("f", 1)>> ELSE <<>>]
    /\ live = [c \in Clients |-> IF c = Actor THEN {Registration("f", 1)} ELSE {}]
    /\ nextReg = [c \in Clients |-> IF c = Actor THEN 1 ELSE 0]
    /\ invoked = [c \in Clients |-> IF c = Actor THEN <<Registration("f", 1)>> ELSE <<>>]
    /\ ipc = [c \in Clients |-> [i \in ICalls |-> "idle"]]
    /\ batches = [c \in Clients |-> IF c = Actor THEN 1 ELSE 0]
    /\ events = [c \in Clients |-> {}]
    /\ CallInit
    /\ ActInit
    /\ aiConfigured = TRUE
    /\ logins = [c \in Clients |-> 0]
    /\ extWrites = 0
    /\ chatUsers = [c \in Clients |-> <<>>]
    /\ SelectInit
    /\ PureInit

\* SpecActions: one mutation call, any action of Requests, while other users write,
\* the channel delivers events and the actor may log out.
NextActions ==
    \/ \E req \in Requests : CallAction(1, req)
    \/ \E k \in ACalls : WriteResolve(k)
    \/ \E k \in ACalls : RefetchResolve(k)
    \/ \E k \in ACalls : LogInsertResolve(k)
    \/ \E k \in ACalls : LogFetchResolve(k)
    \/ \E f \in Watched : ExternalWrite(f)
    \/ \E c \in Clients, f \in Watched : RealtimeRefresh(c, f)
    \/ \E c \in Clients : Logout(c)

SpecActions == InitActions /\ [][NextActions]_vars

\* The calls WeeklyPlanningView and the task list make on task t1.
ToggleRequests == {Request(op, "t1", NoUpdates) : op \in {"toggleTaskCompletion", "deleteTask"}}

\* SpecToggle: two calls on task t1, overlapping or one after the other, while
\* another user updates the task and the channel delivers events.
NextToggle ==
    \/ \E k \in ACalls, req \in ToggleRequests : ToggleAbsent(k, req)
    \/ \E k \in ACalls, req \in ToggleRequests : CallAction(k, req)
    \/ \E k \in ACalls : WriteResolve(k)
    \/ \E k \in ACalls : RefetchResolve(k)
    \/ \E k \in ACalls : LogInsertResolve(k)
    \/ \E k \in ACalls : LogFetchResolve(k)
    \/ ExternalWrite("tasks")
    \/ \E c \in Clients, f \in Watched : RealtimeRefresh(c, f)

SpecToggle == InitActions /\ [][NextToggle]_vars

\* ------------------------------------------------------------------ fetches in flight
\* The fetchers with their await made visible: the handler sends the select, the
\* store reads the rows at some moment, the response arrives later.
\* The collections SpecFetch follows and the action the actor calls on them.
FetchFields == {"sectors"}
FetchRequests == {Request("createSector", Null, NoUpdates)}

\* A handler of the realtime channel runs: fetchX() sends its select and awaits.
StartFetch(c, j, f) ==
    /\ f \in events[c]
    /\ selects[c][j].at = "idle"
    /\ \A i \in FCalls : i < j => selects[c][i].at # "idle"
    /\ events' = [events EXCEPT ![c] = @ \ {f}]
    /\ selects' = [selects EXCEPT ![c][j] = [f |-> f, at |-> "sent", rows |-> NoData]]
    /\ UNCHANGED <<storeVars, db, clientVars, cache, chatUsers, notifierVars, invoked, initVars,
                   extWrites, envVars, pureVars, callVars, actVars>>

\* The store serves the select: the rows of this moment, or an error.
StoreRead(c, j, r) ==
    /\ selects[c][j].at = "sent"
    /\ selects' = [selects EXCEPT ![c][j] =
           [@ EXCEPT !.at = "read",
                     !.rows = IF r = "error" THEN NoData
                              ELSE IF selects[c][j].f = "chatState" THEN Data(lock)
                              ELSE Data(FetchResult(selects[c][j].f))]]
    /\ UNCHANGED <<storeVars, db, clientVars, cache, chatUsers, notifierVars, invoked, initVars,
                   extWrites, events, envVars, pureVars, callVars, actVars>>

\* Variant of FetchResolve that keeps the cached value when another select of
\* the same field is still in flight.
FetchResolveUnlessOverlapped(c, j) ==
    /\ selects[c][j].at = "read"
    /\ LET f == selects[c][j].f
           rows == selects[c][j].rows
           alone == \A i \in FCalls \ {j} :
                        selects[c][i].at = "idle" \/ selects[c][i].f # f
       IN  /\ cache' = IF rows.ok /\ alone /\ f # "chatState"
                          THEN [cache EXCEPT ![c][f] = rows.data] ELSE cache
           /\ chatState' = IF rows.ok /\ alone /\ f = "chatState"
                              THEN [chatState EXCEPT ![c] = rows.data] ELSE chatState
           /\ chatUsers' = IF rows.ok /\ alone /\ f = "chatMessages"
                              THEN [chatUsers EXCEPT ![c] = Hydrated(rows.data, cache[c]["users"])]
                              ELSE chatUsers
    /\ invoked' = [invoked EXCEPT ![c] = listeners[c]]
    /\ selects' = [selects EXCEPT ![c][j] = IdleSelect]
    /\ UNCHANGED <<storeVars, db, currentUser, initialized, subscribed, notifierVars, initVars,
                   extWrites, events, envVars, pureVars, callVars, actVars>>

\* Variant of FetchResolve that drops the rows of the response.
FetchResolveWithoutAssign(c, j) ==
    /\ selects[c][j].at = "read"
    /\ invoked' = [invoked EXCEPT ![c] = listeners[c]]
    /\ selects' = [selects EXCEPT ![c][j] = IdleSelect]
    /\ UNCHANGED <<storeVars, db, clientVars, cache, chatUsers, notifierVars, initVars,
                   extWrites, events, envVars, pureVars, callVars, actVars>>

\* The response arrives: "if (data) this.x = ...", then notify().
FetchResolve(c, j) ==
    /\ selects[c][j].at = "read"
    /\ LET f == selects[c][j].f
           rows == selects[c][j].rows
       IN  /\ cache' = IF rows.ok /\ f # "chatState"
                          THEN [cache EXCEPT ![c][f] = rows.data] ELSE cache
           /\ chatState' = IF rows.ok /\ f = "chatState"
                              THEN [chatState EXCEPT ![c] = rows.data] ELSE chatState
           /\ chatUsers' = IF rows.ok /\ f = "chatMessages"
                              THEN [chatUsers EXCEPT ![c] = Hydrated(rows.data, cache[c]["users"])]
                              ELSE chatUsers
    /\ invoked' = [invoked EXCEPT ![c] = listeners[c]]
    /\ selects' = [selects EXCEPT ![c][j] = IdleSelect]
    /\ UNCHANGED <<storeVars, db, currentUser, initialized, subscribed, notifierVars, initVars,
                   extWrites, events, envVars, pureVars, callVars, actVars>>

\* SpecFetch: the actor, signed in with a filled cache, creates a sector while
\* another user writes one; the handlers' fetches overlap in every way, fail or
\* succeed, a second view may subscribe and the actor may log out.
NextFetch ==
    \/ \E f \in FetchFields : ExternalWrite(f)
    \/ \E req \in FetchRequests : CallAction(1, req)
    \/ \E k \in ACalls : WriteResolve(k)
    \/ \E k \in ACalls : RefetchResolve(k)
    \/ \E c \in Clients, j \in FCalls, f \in Watched : StartFetch(c, j, f)
    \/ \E c \in Clients, j \in FCalls, r \in StoreOutcomes : StoreRead(c, j, r)
    \/ \E c \in Clients, j \in FCalls : FetchResolve(c, j)
    \/ \E fn \in Callbacks : Subscribe(Actor, fn)
    \/ \E c \in Clients : Logout(c)

SpecFetch == InitActions /\ [][NextFetch]_vars

\* The awaited re-fetch of an action, succeeding.
RefetchSucceeds(k) ==
    /\ RefetchResolve(k)
    /\ cache'[Actor][FieldOf(areq[k].op)] = FetchResult(FieldOf(areq[k].op))

\* SpecFetchFair: the same client while it stays logged in and every select
\* succeeds; the writes are finitely many, every pending event is handled and
\* every awaited store call resolves.
NextFetchFair ==
    \/ \E f \in FetchFields : ExternalWrite(f)
    \/ \E req \in FetchRequests : CallAction(1, req)
    \/ \E k \in ACalls : WriteResolve(k)
    \/ \E k \in ACalls : RefetchSucceeds(k)
    \/ \E c \in Clients, j \in FCalls, f \in Watched : StartFetch(c, j, f)
    \/ \E c \in Clients, j \in FCalls : StoreRead(c, j, "ok")
    \/ \E c \in Clients, j \in FCalls : FetchResolve(c, j)
    \/ \E fn \in Callbacks : Subscribe(Actor, fn)

SpecFetchFair ==
    /\ InitActions
    /\ [][NextFetchFair]_vars
    /\ WF_vars(\E k \in ACalls : WriteResolve(k))
    /\ WF_vars(\E k \in ACalls : RefetchSucceeds(k))
    /\ WF_vars(\E c \in Clients, j \in FCalls, f \in Watched : StartFetch(c, j, f))
    /\ WF_vars(\E c \in Clients, j \in FCalls : StoreRead(c, j, "ok"))
    /\ WF_vars(\E c \in Clients, j \in FCalls : FetchResolve(c, j))

\* ------------------------------------------------------------------ chat history
\* A conversation of n messages held by the store when the client starts: bruno
\* asks, the model answers, ana asks, and so on.
History(n) ==
    [i \in 1..n |->
        CASE i % 3 = 1 -> UserMessage(0, "u2", "a")
          [] i % 3 = 2 -> ModelMessage(0, AIText)
          [] OTHER -> UserMessage(0, "u1", "a")]

\* The lengths of that conversation: empty, below and above the window of the
\* prompt, at and above the limit of fetchChatMessages.

InitPrompt ==
    /\ lock = UnlockedRow
    /\ \E n \in {0, HistoryLimit - 1, HistoryLimit + 1, MessageLimit, MessageLimit + 1} :
          messages = History(n)
    /\ db = InitialDb
    /\ ClientInit
    /\ CallInit
    /\ aiConfigured = TRUE
    /\ logins = [c \in Clients |-> 0]
    /\ extWrites = 0
    /\ ActInit
    /\ SelectInit
    /\ PureInit

\* SpecPrompt: one client signs in, its cache is filled and refreshed while another
\* user writes a message or a profile, and it makes one sendChatMessage call.
NextPrompt ==
    \/ \E c \in CacheClients : SignIn(c, 1)
    \/ \E c \in CacheClients : InitializeDataResolve(c, 1)
    \/ \E f \in {"chatMessages", "users"} : ExternalWrite(f)
    \/ \E c \in CacheClients, f \in Watched : RealtimeRefresh(c, f)
    \/ \E c \in CacheClients, m \in Contents : SendClaim(1, c, m)
    \/ \E k \in Calls : ClaimLock(k)
    \/ \E k \in Calls : InsertUserMessage(k)
    \/ \E k \in Calls : GenerateContent(k)
    \/ \E k \in Calls : InsertModelMessage(k)
    \/ \E k \in Calls : InsertApology(k)
    \/ \E k \in Calls : ReleaseLock(k)

SpecPrompt == InitPrompt /\ [][NextPrompt]_vars

\* ------------------------------------------------------------------ calculateTotalHours
\* Texts are sequences of one-character strings.
Digits == <<"0", "1", "2", "3", "4", "5", "6", "7", "8", "9">>
IsDigits(str) == Len(str) > 0 /\ \A i \in 1..Len(str) : str[i] \in {Digits[d] : d \in 1..10}

\* The value of a text of decimal digits.
RECURSIVE Decimal(_)
Decimal(str) ==
    IF str = <<>> THEN 0
    ELSE 10 * Decimal(SubSeq(str, 1, Len(str) - 1)) + (CHOOSE d \in 0..9 : Digits[d + 1] = str[Len(str)])

\* Number(str) for texts over digits, "-", ":" and letters: the empty text is 0,
\* digits are their value, a minus sign before digits negates, anything else is NaN.
NaN == [nan |-> TRUE, val |-> 0]
Num(v) == [nan |-> FALSE, val |-> v]
Number(str) ==
    IF str = <<>> THEN Num(0)
    ELSE IF IsDigits(str) THEN Num(Decimal(str))
    ELSE IF str[1] = "-" /\ IsDigits(Tail(str)) THEN Num(0 - Decimal(Tail(str)))
    ELSE NaN

\* str.split(':')
RECURSIVE Split(_)
Split(str) ==
    IF \A i \in 1..Len(str) : str[i] # ":" THEN <<str>>
    ELSE LET at == CHOOSE i \in 1..Len(str) :
                       str[i] = ":" /\ \A j \in 1..(i - 1) : str[j] # ":"
         IN  <<SubSeq(str, 1, at - 1)>> \o Split(SubSeq(str, at + 1, Len(str)))

\* The minutes one task adds to totalMinutes: nothing when hoursDedicated is falsy
\* or when h or m, the first two pieces of the split, is NaN (m is undefined, hence
\* NaN, when there is one piece only).
MinutesOf(hoursDedicated) ==
    IF hoursDedicated = <<>> THEN 0
    ELSE LET pieces == Split(hoursDedicated)
             h == Number(pieces[1])
             m == IF Len(pieces) >= 2 THEN Number(pieces[2]) ELSE NaN
         IN  IF ~h.nan /\ ~m.nan THEN h.val * 60 + m.val ELSE 0

\* targetTasks: every task when collaboratorId is falsy, the collaborator's otherwise.
TargetTasks(tasks, collaboratorId) ==
    IF collaboratorId = Null THEN tasks
    ELSE SelectSeq(tasks, LAMBDA t : t.collaboratorId = collaboratorId)

RECURSIVE TotalMinutes(_)
TotalMinutes(tasks) ==
    IF tasks = <<>> THEN 0
    ELSE MinutesOf(Head(tasks).hoursDedicated) + TotalMinutes(Tail(tasks))

\* n.toString() of an integer.
RECURSIVE NatToString(_)
NatToString(n) ==
    IF n < 10 THEN <<Digits[n + 1]>>
    ELSE NatToString(n \div 10) \o <<Digits[(n % 10) + 1]>>
IntToString(n) == IF n < 0 THEN <<"-">> \o NatToString(0 - n) ELSE NatToString(n)

\* str.padStart(2, '0')
PadStart2(str) == IF Len(str) < 2 THEN <<"0">> \o str ELSE str

\* calculateTotalHours(collaboratorId) over this.tasks.  h is Math.floor(t / 60),
\* which is \div; m is t % 60, which takes the sign of the dividend; the result is
\* `${h.toString().padStart(2, '0')}:${m.toString().padStart(2, '0')}`.
TotalHours(tasks, collaboratorId) ==
    LET totalMinutes == TotalMinutes(TargetTasks(tasks, collaboratorId))
        h == totalMinutes \div 60
        m == IF totalMinutes < 0 THEN 0 - ((0 - totalMinutes) % 60) ELSE totalMinutes % 60
    IN  PadStart2(IntToString(h)) \o <<":">> \o PadStart2(IntToString(m))

\* The characters of the hoursDedicated texts drawn for the first task, and the
\* texts of at most n of them.
Texts(n) == UNION {[1..k -> {"0", "1", "5", ":", "x", "-"}] : k \in 0..n}


\* The service as constructed; no call of any kind has been made.
ServiceInit ==
    /\ lock = UnlockedRow
    /\ messages = <<>>
    /\ db = InitialDb
    /\ ClientInit
    /\ CallInit
    /\ aiConfigured = TRUE
    /\ logins = [c \in Clients |-> 0]
    /\ extWrites = 0
    /\ ActInit
    /\ SelectInit

\* this.tasks holds two tasks; the view is about to ask for the hours of every
\* task (no collaboratorId) or of one collaborator.
InitHours ==
    /\ ServiceInit
    /\ args \in [fn : {"calculateTotalHours"},
                 tasks : {<<[collaboratorId |-> u1, hoursDedicated |-> h1],
                            [collaboratorId |-> u2, hoursDedicated |-> h2]>> :
                              u1 \in Users, u2 \in Users,
                              h1 \in Texts(MaxHoursLen), h2 \in {<<>>, <<"0", "1", ":", "3", "0">>,
                                      <<"0", "0", ":", "4", "5">>}},
                 collaboratorId : Users \cup {Null}]
    /\ result = NoResult

\* backend.calculateTotalHours(currentUser?.id) of the stats of App.
CalculateTotalHours ==
    /\ args.fn = "calculateTotalHours"
    /\ ~result.done
    /\ result' = Returned(TotalHours(args.tasks, args.collaboratorId))
    /\ UNCHANGED <<storeVars, clientVars, envVars, callVars, dataVars, selects, args>>

NextHours == CalculateTotalHours

SpecHours == InitHours /\ [][NextHours]_vars

\* ------------------------------------------------------------------ observations
\* Positions of the rows of chat_messages that call k appended with the given role.
RowsOf(k, role) == {i \in 1..Len(messages) : messages[i].by = k /\ messages[i].role = role}

\* The AI request of call k has been issued and its result not yet received.
AIInFlight(k) == pc[k] = "ai"

\* Call k's claim has taken effect and its AI call has neither returned nor thrown.
Holding(k) == claimed[k] /\ pc[k] \in {"insertUser", "ai"}

\* The row a successful claim of call k's client leaves in the store.
HeldRow(k) == [isLocked |-> TRUE, lockedByUserId |-> UserOf(who[k])]


\* Call k's client terminated between its claim write and its release write.
Stranded(k) == pc[k] = "dead" /\ claimed[k] /\ lock.isLocked

\* ------------------------------------------------------------------ claims

\* C1 (as stated): at every moment at most one call, over all clients, is between
\* issuing its AI completion request and receiving the result.
C1_AtMostOneAIInFlight == Cardinality({k \in Calls : AIInFlight(k)}) <= 1

\* C1 (amended): an AI request is in flight only for a call whose busy check read
\* UNLOCKED from its client's cached lock row; nothing else limits how many are in flight.
C1_AIOnlyPastUnlockedCache == \A k \in Calls : AIInFlight(k) => seen[k] = "unlocked"

C1_Witness == \E j, k \in Calls : j # k /\ AIInFlight(j) /\ AIInFlight(k) /\ who[j] # who[k]

\* C2: a call made while the caller's cached lock row has isLocked = TRUE (user signed
\* in, AI client configured) fails with the chat-busy error at once: the lock row and
\* the messages table are untouched, and the call takes no further step (no write, no
\* AI request).
C2_BusyRejection ==
    /\ [](\A k \in Calls : seen[k] = "locked" =>
              /\ pc[k] = "done" /\ outcome[k] = "busy"
              /\ aiResult[k] = "none" /\ ~claimed[k]
              /\ RowsOf(k, "user") = {} /\ RowsOf(k, "model") = {})
    /\ [][\A k \in Calls : (pc[k] = "idle" /\ seen'[k] = "locked") =>
              (pc'[k] = "done" /\ outcome'[k] = "busy" /\ UNCHANGED storeVars)]_vars

C2_Witness == \E k \in Calls : outcome[k] = "busy" /\ seen[k] = "locked" /\ lock.isLocked

\* C3: whenever a call that passed the busy check returns, the lock row of the store
\* is UNLOCKED (the return follows the release write with no other write in between).
C3_UnlockedOnReturn ==
    [][\A k \in Calls : (pc[k] = "release" /\ pc'[k] = "done") => lock' = UnlockedRow]_vars

\* C4: a call that passed the busy check and returned has appended exactly one
\* model-authored row: the AI's text when the completion succeeded, else the apology.
C4_ExactlyOneModelMessage ==
    \A k \in Calls : outcome[k] = "returned" =>
        /\ Cardinality(RowsOf(k, "model")) = 1
        /\ \A i \in RowsOf(k, "model") :
              /\ messages[i].userId = Null
              /\ messages[i].content = IF aiResult[k] = "text" THEN AIText ELSE Apology

\* C5: a call that reached the claim write and returned has appended exactly one
\* user-authored row, with the caller's user id and the given content.
C5_ExactlyOneUserMessage ==
    \A k \in Calls : outcome[k] = "returned" =>
        /\ Cardinality(RowsOf(k, "user")) = 1
        /\ \A i \in RowsOf(k, "user") :
              messages[i].userId = UserOf(who[k]) /\ messages[i].content = content[k]

\* C6: a call whose AI request threw returns normally, having appended the apology as
\* a model-authored row.
C6_FailureBecomesApology ==
    \A k \in Calls : (pc[k] = "done" /\ aiResult[k] = "error") =>
        /\ outcome[k] = "returned"
        /\ \E i \in RowsOf(k, "model") : messages[i].content = Apology

\* C7 (as stated): from the claim taking effect until the AI call has returned or
\* thrown, the lock row stays LOCKED by the claiming client's user.
C7_HeldUntilAIResult == \A k \in Calls : Holding(k) => lock = HeldRow(k)

\* C7 (amended): the claim leaves the row LOCKED by the caller's user, and while the
\* call waits for its AI result the row keeps that value through every step that is
\* not another call's claim or release write.
C7_HeldUnlessOtherLockWrite ==
    [][\A k \in Calls :
          /\ (pc[k] = "claim" /\ claimed'[k]) => lock' = HeldRow(k)
          /\ (/\ Holding(k) /\ lock = HeldRow(k)
              /\ ~\E j \in Calls \ {k} : pc[j] \in {"claim", "release"} /\ pc'[j] # pc[j]) =>
                 lock' = HeldRow(k)]_vars

C7_Witness ==
    \E j, k \in Calls : /\ j # k /\ AIInFlight(k) /\ claimed[k] /\ lock = HeldRow(k)
                        /\ outcome[j] = "busy"

\* C8: in the store's lock row and in every client's cached copy, isLocked = TRUE
\* implies lockedByUserId is not null.
C8_LockedHasOwner ==
    /\ lock.isLocked => lock.lockedByUserId # Null
    /\ \A c \in Clients : chatState[c].isLocked => chatState[c].lockedByUserId # Null

C8_Witness == lock.isLocked /\ \E c \in Clients : chatState[c].isLocked

\* C9: with no process terminated mid-turn, once every call has run to its end the
\* lock row is UNLOCKED (no completed code path leaves it LOCKED).
C9_NoLockLeftByCompletedCalls ==
    (\A k \in Calls : pc[k] \in {"idle", "done"}) => ~lock.isLocked

\* C10 (as stated): once a client has terminated between its claim and its release,
\* the row stays LOCKED and no later call passes the busy check.
C10_StrandedForever ==
    [][\A k \in Calls : Stranded(k) =>
          /\ lock'.isLocked
          /\ \A j \in Calls : pc[j] = "idle" => pc'[j] \in {"idle", "done"}]_vars

\* C10 (amended): after such a termination nothing but a call resets the row: while no
\* other call is in flight the row does not change, and a call passes the busy check
\* only from a client whose cached lock row reads UNLOCKED.
C10_StrandedUntilOtherCall ==
    [][\A k \in Calls : Stranded(k) =>
          /\ (\A j \in Calls : pc[j] \notin InFlight) => lock' = lock
          /\ \A j \in Calls : (pc[j] = "idle" /\ pc'[j] \in InFlight) =>
                ~chatState[who'[j]].isLocked]_vars

C10_Witness == \E j, k \in Calls : j # k /\ Stranded(k) /\ outcome[j] = "busy"


\* ------------------------------------------------------------------ cache and notifier claims

\* Claim C11: between two logouts the initializeData calls of a client, sequential
\* or overlapping, issue exactly one batch of fetches.  (Violated: the ready flag
\* is set only after the awaited batch, so a call made while a batch is in flight
\* issues a second one.)
C11_OneBatchBetweenLogouts == \A c \in Clients : batches[c] <= 1

\* Claim C12: subscribe runs the callback exactly once before it returns when the
\* cache is ready, and does not run it when the cache is not ready.
C12_SubscribeCallsOnceIffReady ==
    [][\A c \in Clients :
          nextReg'[c] # nextReg[c] =>
              /\ listeners'[c] = Append(listeners[c], listeners'[c][Len(listeners'[c])])
              /\ invoked'[c] = IF initialized[c]
                                 THEN <<listeners'[c][Len(listeners'[c])]>>
                                 ELSE <<>>]_vars

\* A second subscriber registered on a ready cache: it alone was called.
C12_Witness ==
    \E c \in Clients :
        /\ initialized[c]
        /\ Len(listeners[c]) = 2
        /\ invoked[c] = <<listeners[c][2]>>

\* Claim C13: after an unsubscribe closure is called its registration is in no
\* later notification, and every other registration, a second registration of
\* the same function included, stays in the list notify walks.  (Violated: the
\* closure filters by function, so it drops every registration of that function.)
C13_UnsubscribeRemovesOnlyItsRegistration ==
    \A c \in Clients : {listeners[c][i] : i \in DOMAIN listeners[c]} = live[c]

\* Claim C14: when logout returns, every cached collection and the cached chat lock
\* state are empty or at their initial value, the ready flag is false, the listener
\* list is the one from before and each listener has been called exactly once.
\* (Violated: logout does not reset this.chatState.)
C14_LogoutClearsEverything ==
    [][\A c \in Clients :
          (currentUser[c] # Null /\ currentUser'[c] = Null) =>
              /\ \A f \in Collections : cache'[c][f] = ConstructedCache[f]
              /\ chatState'[c] = UnlockedRow
              /\ ~initialized'[c]
              /\ listeners'[c] = listeners[c]
              /\ invoked'[c] = listeners[c]]_vars

\* Claim C15: a fetch that fails, in the batch of initializeData or in a realtime
\* handler, leaves its field at the value it had; fields whose fetch succeeded hold
\* the store's rows; initializeData sets the ready flag and notifies every listener
\* once whatever failed.
C15_FailedFetchKeepsValue ==
    [][\A c \in Clients :
          /\ (\E i \in ICalls : ipc[c][i] = "fetching" /\ ipc'[c][i] = "idle") =>
                 /\ initialized'[c]
                 /\ invoked'[c] = listeners[c]
                 /\ \A f \in Collections :
                        cache'[c][f] # FetchResult(f) => cache'[c][f] = cache[c][f]
                 /\ chatState'[c] # lock => chatState'[c] = chatState[c]
          /\ events'[c] # events[c] /\ events'[c] \subseteq events[c] =>
                 /\ invoked'[c] = listeners[c]
                 /\ \A f \in Collections :
                        cache'[c][f] # FetchResult(f) => cache'[c][f] = cache[c][f]
                 /\ chatState'[c] # lock => chatState'[c] = chatState[c]]_vars

\* The cache is ready although the fetch of sectors failed in the batch, and the
\* failed realtime refresh of tasks left the rows fetched before.
C15_Witness ==
    \E c \in Clients :
        /\ initialized[c]
        /\ cache[c]["sectors"] = {} /\ db.sectors # {}
        /\ events[c] = {} /\ extWrites = 1
        /\ cache[c]["tasks"] # {} /\ cache[c]["tasks"] # db.tasks


\* ------------------------------------------------------------------ mutation action claims
\* The rows of activity_logs inserted for mutation call k.
LogsOf(k) == {i \in 1..Len(db.activity_logs) : db.activity_logs[i].by = k}

\* Call k was a toggleTaskCompletion that found its task and returned without error.
Toggled(k) ==
    /\ apc[k] = "done"
    /\ aout[k] = "returned"
    /\ areq[k].op = "toggleTaskCompletion"

\* Claim C16: a successful mutation action sends exactly one write, starts its
\* re-fetch only after that write has completed, and runs notify() only once the
\* cached collection is the rows of that re-fetch.  (Violated: the re-fetch may
\* fail; the fetcher then assigns nothing and notify() runs on the old rows.)
C16_NotifiedAfterCacheReplaced ==
    [][\A k \in ACalls :
          /\ fetches'[k] # fetches[k] =>
                apc[k] = "write" /\ sent[k] = 1 /\ db' = Written(k, areq[k])
          /\ notes'[k] # notes[k] /\ apc[k] = "refetch" =>
                /\ sent[k] = 1 /\ fetches[k] = 1
                /\ cache'[Actor][FieldOf(areq[k].op)] = FetchResult(FieldOf(areq[k].op))]_vars

\* Claim C16, amended: one write; the re-fetch is sent in the step in which the write
\* takes effect and not before; notify() runs when the re-fetch has resolved, the
\* cached collection being its rows, or the rows held before if it failed.
C16_NotifiedAfterRefetchResolved ==
    [][\A k \in ACalls :
          /\ sent'[k] <= 1
          /\ fetches'[k] # fetches[k] =>
                apc[k] = "write" /\ sent[k] = 1 /\ db' = Written(k, areq[k])
          /\ notes'[k] # notes[k] /\ apc[k] = "refetch" =>
                /\ sent[k] = 1 /\ fetches[k] = 1
                /\ invoked'[Actor] = listeners[Actor]
                /\ cache'[Actor][FieldOf(areq[k].op)] \in
                      {FetchResult(FieldOf(areq[k].op)), cache[Actor][FieldOf(areq[k].op)]}]_vars

\* A createSector call has returned after its write, and the view was notified
\* although the failed re-fetch left the cached sectors without the new row.
C16_Witness ==
    /\ apc[1] = "done" /\ aout[1] = "returned"
    /\ areq[1].op = "createSector"
    /\ sent[1] = 1 /\ fetches[1] = 1 /\ notes[1] = 1
    /\ NewId(1) \in db.sectors
    /\ NewId(1) \notin cache[Actor]["sectors"]
    /\ extWrites = 0 /\ events[Actor] = {"sectors"}

\* Claim C17: every mutation action that returned without error has appended
\* exactly one row to activity_logs.  (Violated: updateBoardTask and the sector,
\* project and user actions never call logAction, and logAction does not look at
\* the result of its insert.)
C17_OneLogPerAction ==
    \A k \in ACalls :
        (apc[k] = "done" /\ aout[k] = "returned") => Cardinality(LogsOf(k)) = 1

\* Claim C18: the write of toggleTaskCompletion never replaces a non-empty
\* deliveredActivity held by the store, also when the cached task is older than the
\* store's row.  (Violated: the updates are computed from the cached task alone.)
C18_ToggleKeepsDelivered ==
    [][\A k \in ACalls :
          (apc[k] = "write" /\ apc'[k] # "write" /\ areq[k].op = "toggleTaskCompletion") =>
              \A t \in db.tasks :
                  Truthy(t.deliveredActivity) =>
                      \E u \in db'.tasks :
                          u.id = t.id /\ u.deliveredActivity = t.deliveredActivity]_vars

\* Claim C19: a toggle turns COMPLETED into PENDING and PENDING into COMPLETED, and
\* two toggles, the second reading the status the first wrote, leave the task with
\* the status it started with, whatever that status was.  (Violated: IN_PROGRESS
\* and BLOCKED become COMPLETED and then PENDING.)
C19_ToggleTwiceRestores ==
    /\ \A k \in ACalls :
          Toggled(k) =>
              /\ areq[k].read.status = COMPLETED => areq[k].updates.status = PENDING
              /\ areq[k].read.status = PENDING => areq[k].updates.status = COMPLETED
    /\ (Toggled(1) /\ Toggled(2) /\ areq[2].read.status = areq[1].updates.status) =>
          /\ areq[2].updates.status = areq[1].read.status
          /\ \A t \in db.tasks : t.id = "t1" => t.status = areq[1].read.status

\* Claim C19, amended: a toggle writes PENDING over COMPLETED and COMPLETED over
\* every other status; two toggles in a row restore PENDING and COMPLETED, and
\* leave PENDING where the task started IN_PROGRESS or BLOCKED.
C19_ToggleTwiceRestoresPendingOrCompleted ==
    /\ \A k \in ACalls :
          Toggled(k) =>
              areq[k].updates.status =
                  IF areq[k].read.status = COMPLETED THEN PENDING ELSE COMPLETED
    /\ (Toggled(1) /\ Toggled(2) /\ areq[2].read.status = areq[1].updates.status) =>
          /\ areq[2].updates.status =
                 IF areq[1].read.status = COMPLETED THEN COMPLETED ELSE PENDING
          /\ \A t \in db.tasks : t.id = "t1" => t.status = areq[2].updates.status

\* Two toggles in a row on a task that started IN_PROGRESS: it is now PENDING.
C19_Witness ==
    /\ Toggled(1) /\ Toggled(2)
    /\ areq[1].read.status = IN_PROGRESS
    /\ areq[2].read.status = COMPLETED
    /\ \E t \in db.tasks : t.id = "t1" /\ t.status = PENDING

\* Claim C20: deleteSector of a sector a project references ends with the
\* referential-conflict error after its one write; the store's tables and the cache
\* are as before, no re-fetch is sent and notify() does not run.
C20_ReferencedSectorNotDeleted ==
    [][\A k \in ACalls :
          (apc[k] = "write" /\ apc'[k] # "write" /\ areq[k].op = "deleteSector"
              /\ Rejected(areq[k])) =>
              /\ apc'[k] = "done"
              /\ aout'[k] = ErrorOf("deleteSector")
              /\ db' = db
              /\ cache' = cache
              /\ sent'[k] = 1 /\ fetches'[k] = 0 /\ notes'[k] = 0]_vars

\* deleteSector("s1") has thrown; s1 and the project referencing it are still there.
C20_Witness ==
    /\ apc[1] = "done"
    /\ areq[1].op = "deleteSector" /\ areq[1].id = "s1"
    /\ aout[1] = ErrorOf("deleteSector")
    /\ "s1" \in db.sectors /\ "s1" \in cache[Actor]["sectors"]
    /\ fetches[1] = 0 /\ notes[1] = 0

\* Call k has ended by throwing the error of its action.
Thrown(k) == apc[k] = "done" /\ aout[k] = ErrorOf(areq[k].op)

\* Claim C21: when the store refuses or fails the write of a create, update or
\* delete action, the action throws after that one write: no re-fetch is sent,
\* notify() does not run, no row is appended to activity_logs, the write is not
\* sent again, and the store's tables and every cached collection are as before.
C21_FailedWriteChangesNothing ==
    [][\A k \in ACalls :
          /\ (apc[k] = "write" /\ apc'[k] # "write" /\ Rejected(areq[k])) => Thrown(k)'
          /\ (apc[k] = "write" /\ sent'[k] # sent[k]) => FALSE
          /\ (apc[k] = "write" /\ Thrown(k)') =>
                /\ db' = db
                /\ cache' = cache
                /\ invoked' = invoked
                /\ sent'[k] = 1 /\ fetches'[k] = 0 /\ notes'[k] = 0
                /\ LogsOf(k)' = {}
          /\ Thrown(k) =>
                /\ apc'[k] = "done"
                /\ sent'[k] = 1 /\ fetches'[k] = 0 /\ notes'[k] = 0
                /\ LogsOf(k)' = {}]_vars

\* createTask has thrown on a failed insert: no task was added to the store or
\* to the cache, and nothing was fetched, notified or logged.
C21_Witness ==
    /\ Thrown(1)
    /\ areq[1].op = "createTask"
    /\ \A t \in db.tasks : t.id # NewId(1)
    /\ cache[Actor]["tasks"] = db.tasks
    /\ sent[1] = 1 /\ fetches[1] = 0 /\ notes[1] = 0
    /\ LogsOf(1) = {}
    /\ currentUser[Actor] # Null

\* ------------------------------------------------------------------ CSV export
\* Texts are sequences of characters; any string other than these three stands for
\* a run of ordinary characters.
Quote == "\""
Comma == ","
Newline == "\n"
BOM == "uFEFF"

\* A field of a task: a text, or undefined / null.
Missing == [present |-> FALSE, text |-> <<>>]
Value(text) == [present |-> TRUE, text |-> text]

\* str ? String(str) : ''
TextOf(v) == IF v.present /\ v.text # <<>> THEN v.text ELSE <<>>

\* s.replace(/"/g, '""')
RECURSIVE Doubled(_)
Doubled(text) ==
    IF text = <<>> THEN <<>>
    ELSE (IF Head(text) = Quote THEN <<Quote, Quote>> ELSE <<Head(text)>>)
            \o Doubled(Tail(text))

\* Faulty variant of Escape: embedded quotes are left single.
EscapeWithoutDoubling(v) == <<Quote>> \o TextOf(v) \o <<Quote>>

\* escape: `"${s.replace(/"/g, '""')}"`
Escape(v) == <<Quote>> \o Doubled(TextOf(v)) \o <<Quote>>

\* parts.join(sep) for texts.
RECURSIVE Join(_, _)
Join(parts, sep) ==
    IF parts = <<>> THEN <<>>
    ELSE IF Len(parts) = 1 THEN parts[1]
    ELSE parts[1] \o <<sep>> \o Join(Tail(parts), sep)

\* The header row.
Headers ==
    <<<<"Projeto">>, <<"Setor">>, <<"Colaborador">>, <<"Atividade Planejada">>,
      <<"Atividade Entregue">>, <<"Status">>, <<"Prioridade">>, <<"Data Entrega">>,
      <<"Horas">>, <<"Observacoes">>>>


\* The ten values of the row of task t, in column order; getProjectName and
\* collaboratorName give the name found, or the fallback text.
RowValues(t) ==
    LET projectName == IF t.projectId = "p1" THEN Value(<<"Portal">>)
                                              ELSE Value(<<"Projeto Desconhecido">>)
        collaboratorName == IF t.collaboratorId \in Users
                              THEN Value(<<NameOf(t.collaboratorId)>>)
                              ELSE Value(<<"N/A">>)
    IN  <<projectName, t.sector, collaboratorName,
          t.plannedActivity, t.deliveredActivity, t.status, t.priority, t.dueDate,
          t.hoursDedicated, t.notes>>

\* csvContent: the byte-order mark, the header line and one line per task, each
\* line the escaped values joined by commas.
CsvContent(tasks) ==
    LET row(t) == Join([i \in 1..Len(RowValues(t)) |-> Escape(RowValues(t)[i])], Comma)
    IN  <<BOM>> \o Join(<<Join(Headers, Comma)>> \o [i \in 1..Len(tasks) |-> row(tasks[i])],
                        Newline)

\* The characters of the plannedActivity texts drawn, and the texts of at most n.
CsvTexts(n) == UNION {[1..k -> {"a", Quote, Comma, Newline}] : k \in 0..n}

\* A filtered task with the given project, planned activity and notes.
ExportedTask(projectId, planned, remarks) ==
    [projectId |-> projectId,
     sector |-> Value(<<"TI">>),
     collaboratorId |-> "u1",
     plannedActivity |-> Value(planned),
     deliveredActivity |-> Value(<<>>),
     status |-> Value(<<PENDING>>),
     priority |-> Value(<<"Alta">>),
     dueDate |-> Value(<<"2025-01-31">>),
     hoursDedicated |-> Value(<<"01", ":", "30">>),
     notes |-> remarks]

\* The notes of a task: undefined, empty, or a quoted word.
NotesDrawn == {Missing, Value(<<>>), Value(<<Quote, "a", Quote>>)}

\* filteredTasks: no task, one task, or two.
InitCsv ==
    /\ ServiceInit
    /\ args \in [fn : {"handleExportCSV"},
                 tasks : {<<>>}
                     \cup {<<ExportedTask(p, t, n)>> :
                             p \in {"p1", "p9"}, t \in CsvTexts(MaxFieldLen), n \in NotesDrawn}
                     \cup {<<ExportedTask(p, t, n), ExportedTask("p1", u, Missing)>> :
                             p \in {"p1", "p9"}, t \in CsvTexts(MaxFieldLen), n \in NotesDrawn,
                             u \in CsvTexts(1)}]
    /\ result = NoResult

\* handleExportCSV with no task to export: an alert, no file.
ExportNothing ==
    /\ args.fn = "handleExportCSV"
    /\ ~result.done
    /\ args.tasks = <<>>
    /\ result' = [done |-> TRUE, alert |-> TRUE]
    /\ UNCHANGED <<storeVars, clientVars, envVars, callVars, dataVars, selects, args>>

\* handleExportCSV: the file content handed to the Blob.
ExportCSV ==
    /\ args.fn = "handleExportCSV"
    /\ ~result.done
    /\ args.tasks # <<>>
    /\ result' = Returned(CsvContent(args.tasks))
    /\ UNCHANGED <<storeVars, clientVars, envVars, callVars, dataVars, selects, args>>

NextCsv == ExportNothing \/ ExportCSV

SpecCsv == InitCsv /\ [][NextCsv]_vars

\* ------------------------------------------------------------------ pure function claims
\* Claim C22: calculateTotalHours returns the zero-padded "HH:MM" of the minutes
\* summed over all tasks, or over the collaborator's tasks; "H:M" adds 60 * H + M,
\* an empty or malformed value adds 0, and the minutes part is within 0..59.
\* (Violated: Number("") is 0, so ":5" adds 5 minutes and "1:" an hour; a third
\* piece is ignored; "-1:5" makes the total negative.)
C22_TotalHoursOfWellFormedValues ==
    (args.fn = "calculateTotalHours" /\ result.done) =>
        LET WellFormed(str, i) ==
                /\ str[i] = ":"
                /\ IsDigits(SubSeq(str, 1, i - 1))
                /\ IsDigits(SubSeq(str, i + 1, Len(str)))
            Claimed(str) ==
                IF \E i \in 1..Len(str) : WellFormed(str, i)
                  THEN LET at == CHOOSE i \in 1..Len(str) : WellFormed(str, i)
                       IN  60 * Decimal(SubSeq(str, 1, at - 1))
                               + Decimal(SubSeq(str, at + 1, Len(str)))
                  ELSE 0
            RECURSIVE Sum(_)
            Sum(tasks) ==
                IF tasks = <<>> THEN 0
                ELSE Claimed(Head(tasks).hoursDedicated) + Sum(Tail(tasks))
            total == Sum(TargetTasks(args.tasks, args.collaboratorId))
            text == result.value
        IN  /\ text = PadStart2(NatToString(total \div 60)) \o <<":">>
                          \o PadStart2(NatToString(total % 60))
            /\ \E i \in 1..Len(text) :
                   /\ text[i] = ":"
                   /\ IsDigits(SubSeq(text, i + 1, Len(text)))
                   /\ Decimal(SubSeq(text, i + 1, Len(text))) \in 0..59

\* ------------------------------------------------------------------ chat history claims
\* Claim C23: the prompt holds at most HistoryLimit history messages, the most
\* recent ones of the conversation at that moment, all of them when there are
\* fewer, in creation order, followed by one line naming the current user with
\* the new content.  (Violated, through the fetch of claim C26: a cache that holds
\* what fetchChatMessages returns holds the first 50 messages, so with 51 in the
\* store the history is messages 41 to 50.)
C23_PromptHasLatestMessages ==
    [][\A k \in Calls :
          (~prompt[k].sent /\ prompt'[k].sent
              /\ cache[who[k]]["chatMessages"] = FetchResult("chatMessages")) =>
              LET latest == LastN(messages, HistoryLimit)
              IN  /\ Len(prompt'[k].history) = Len(latest)
                  /\ \A i \in 1..Len(latest) :
                         prompt'[k].history[i].content = latest[i].content
                  /\ prompt'[k].last =
                         [name |-> NameOf(UserOf(who[k])), content |-> content[k]]]_vars

\* Claim C26: after a refresh the cached chat messages are the most recently
\* created messages of the store, at most MessageLimit of them, in creation order,
\* so a message appended to a long conversation reaches the cache with the next
\* successful refresh.  (Violated: the select orders by created_at ascending and
\* takes the first 50 rows.)
C26_CacheHoldsLatestMessages ==
    [][\A c \in Clients :
          (\/ "chatMessages" \in events[c] \ events'[c]
           \/ \E i \in ICalls : ipc[c][i] = "fetching" /\ ipc'[c][i] = "idle") =>
              \/ cache'[c]["chatMessages"] = LastN(messages, MessageLimit)
              \/ cache'[c]["chatMessages"] = cache[c]["chatMessages"]]_vars

\* Claim C27: every history line of the prompt that stands for a message written
\* by a user starts with that user's name, and "Gemini AI" starts the lines of
\* model messages only, whatever order the fetch of users and the fetch of chat
\* messages complete in.  (Violated: the user is looked up in this.users when the
\* chat messages arrive; found missing there, the message is named "Gemini AI".)
C27_HistoryLinesNamed ==
    [][\A k \in Calls :
          (~prompt[k].sent /\ prompt'[k].sent) =>
              LET shown == LastN(cache[who[k]]["chatMessages"], HistoryLimit)
              IN  \A i \in 1..Len(shown) :
                      prompt'[k].history[i].name =
                          IF shown[i].role = "user" THEN NameOf(shown[i].userId)
                          ELSE GeminiName]_vars

\* Claim C24: in the exported file every value, with embedded quotes, commas or
\* line breaks, and every missing value as the empty text, is wrapped in double
\* quotes with its quotes doubled, and a standard CSV reader applied to the file
\* after the byte-order mark recovers the header and the values of every row, in
\* order.  The reader: a line break or comma separates only outside quotes, that
\* is after an even number of quote characters; a field that starts with a quote
\* loses its outer quotes and has "" read as one quote.
C24_CsvRoundTrip ==
    (args.fn = "handleExportCSV" /\ result.done /\ args.tasks # <<>>) =>
        LET csv == Tail(result.value)
            Outside(i) == Cardinality({j \in 1..(i - 1) : csv[j] = Quote}) % 2 = 0
            \* The pieces <<first, last>> of csv[lo..hi] between the separators sep.
            Pieces(lo, hi, sep) ==
                LET seps == {i \in lo..hi : csv[i] = sep /\ Outside(i)}
                    n == Cardinality(seps)
                    At(k) == IF k = 0 THEN lo - 1
                             ELSE IF k = n + 1 THEN hi + 1
                             ELSE CHOOSE i \in seps : Cardinality({j \in seps : j < i}) = k - 1
                IN  [k \in 1..(n + 1) |-> <<At(k - 1) + 1, At(k) - 1>>]
            RECURSIVE Undoubled(_)
            Undoubled(text) ==
                IF text = <<>> THEN <<>>
                ELSE IF Head(text) # Quote THEN <<Head(text)>> \o Undoubled(Tail(text))
                ELSE IF Len(text) >= 2 /\ text[2] = Quote
                  THEN <<Quote>> \o Undoubled(SubSeq(text, 3, Len(text)))
                ELSE <<"malformed">>
            Field(p) ==
                IF p[1] < p[2] /\ csv[p[1]] = Quote /\ csv[p[2]] = Quote
                  THEN Undoubled(SubSeq(csv, p[1] + 1, p[2] - 1))
                  ELSE SubSeq(csv, p[1], p[2])
            Record(p) ==
                LET fields == Pieces(p[1], p[2], Comma)
                IN  [k \in 1..Len(fields) |-> Field(fields[k])]
            Read ==
                LET records == Pieces(1, Len(csv), Newline)
                IN  [k \in 1..Len(records) |-> Record(records[k])]
            Quotes(text) == Cardinality({i \in 1..Len(text) : text[i] = Quote})
            Original(t) == [i \in 1..Len(RowValues(t)) |-> TextOf(RowValues(t)[i])]
        IN  /\ result.value[1] = BOM
            /\ Read =
                   <<Headers>> \o [i \in 1..Len(args.tasks) |-> Original(args.tasks[i])]
            /\ \A i \in 1..Len(args.tasks) :
                   \A j \in 1..Len(RowValues(args.tasks[i])) :
                       LET v == RowValues(args.tasks[i])[j]
                           e == Escape(v)
                       IN  /\ e[1] = Quote /\ e[Len(e)] = Quote
                           /\ Len(e) = 2 + Len(TextOf(v)) + Quotes(TextOf(v))
                           /\ Quotes(e) = 2 + 2 * Quotes(TextOf(v))

\* Two tasks were exported: the first with a quote, a comma and a line break in its
\* planned activity and with quoted notes, the second without notes.
C24_Witness ==
    /\ args.fn = "handleExportCSV" /\ result.done
    /\ Len(args.tasks) = 2
    /\ args.tasks[1].plannedActivity = Value(<<Quote, Comma, Newline>>)
    /\ args.tasks[1].notes = Value(<<Quote, "a", Quote>>)
    /\ args.tasks[2].notes = Missing
    /\ Len(result.value) > 1

\* ------------------------------------------------------------------ fetch ordering claims
\* Claim C25: from the return of logout until the next initializeData call begins,
\* every cached collection is empty and the ready flag is false: neither an
\* initializeData in flight at the logout nor a realtime event handled after it
\* fills the cache or sets the flag.  (Violated: the batch awaited by initializeData
\* assigns its rows and sets this.initialized when it resolves, and the channel,
\* never closed, keeps re-fetching.)
C25_LoggedOutCacheStaysEmpty ==
    \A c \in Clients :
        (currentUser[c] = Null /\ batches[c] = 0) =>
            /\ ~initialized[c]
            /\ \A f \in Collections : cache[c][f] = ConstructedCache[f]

\* ------------------------------------------------------------------ updateTask claim
\* Claim C30: the write of updateTask(id, updates) changes, in the row with that
\* id, only the fields whose value in updates is truthy (and updatedAt, which the
\* rows of this model do not carry); a field absent from updates or given as the
\* empty text keeps its stored value; no other task and no other table changes.
\* A write the store fails changes nothing.
C30_UpdateTaskWritesTruthyFieldsOnly ==
    [][\A k \in ACalls :
          (apc[k] = "write" /\ apc'[k] # "write"
              /\ areq[k].op \in {"updateTask", "toggleTaskCompletion"}) =>
              /\ \A t \in db.tasks : t.id # areq[k].id => t \in db'.tasks
              /\ \A u \in db'.tasks : u.id # areq[k].id => u \in db.tasks
              /\ \A t \in db.tasks :
                     t.id = areq[k].id =>
                         \E u \in db'.tasks :
                             /\ u.id = t.id
                             /\ u.projectId = t.projectId
                             /\ u.plannedActivity = t.plannedActivity
                             /\ \A fld \in {"status", "deliveredActivity"} :
                                    IF Truthy(areq[k].updates[fld])
                                      THEN u[fld] = IF apc'[k] = "refetch"
                                                      THEN areq[k].updates[fld]
                                                      ELSE t[fld]
                                      ELSE u[fld] = t[fld]
              /\ \A tb \in DOMAIN db \ {"tasks"} : db'[tb] = db[tb]
              /\ UNCHANGED storeVars]_vars

\* updateTask("t1", {status: IN_PROGRESS, deliveredActivity: ""}) has written: t1 is
\* IN_PROGRESS and still has its delivered text, and the task another user added
\* is as that user wrote it.
C30_Witness ==
    /\ apc[1] = "refetch"
    /\ areq[1].op = "updateTask" /\ areq[1].updates.deliveredActivity = ""
    /\ TaskRow("t1", IN_PROGRESS, "plan", "theirs") \in db.tasks
    /\ TaskRow("t2", IN_PROGRESS, "plan2", "") \in db.tasks
    /\ cache[Actor]["tasks"] = {TaskRow("t1", PENDING, "plan", "done")}

\* ------------------------------------------------------------------ fetch ordering claims
\* C28: on one client a cached collection is replaced only when a fetch of that
\* collection completes successfully, by the rows that fetch read, or by the
\* cleared value at logout; while a fetch is in flight the getter still returns
\* the snapshot from before it; and whichever fetch completes, its rows become
\* the value, also when another fetch of the collection read the store later.
C28_CacheIsLastCompletedFetch ==
    [][\A c \in Clients, f \in Collections :
          LET Completes(j) == /\ selects[c][j].at = "read"
                              /\ selects[c][j].f = f
                              /\ selects'[c][j].at = "idle"
              Awaited(k) == /\ c = Actor
                            /\ apc[k] = "refetch" /\ apc'[k] # "refetch"
                            /\ FieldOf(areq[k].op) = f
          IN  /\ cache'[c][f] # cache[c][f] =>
                    \/ /\ currentUser[c] # Null /\ currentUser'[c] = Null
                       /\ cache'[c][f] = ConstructedCache[f]
                    \/ \E j \in FCalls :
                          /\ Completes(j)
                          /\ selects[c][j].rows.ok
                          /\ cache'[c][f] = selects[c][j].rows.data
                    \/ \E k \in ACalls : Awaited(k) /\ cache'[c][f] = FetchResult(f)
              /\ \A j \in FCalls :
                    Completes(j) =>
                        cache'[c][f] = IF selects[c][j].rows.ok
                                         THEN selects[c][j].rows.data
                                         ELSE cache[c][f]]_vars

\* Two fetches of sectors overlap: the first read the store before the actor's
\* sector was created, the second after it, and until one of them completes
\* getSectors() returns the snapshot from before both.
C28_Witness ==
    /\ selects[Actor][1] = [f |-> "sectors", at |-> "read", rows |-> Data({"s1", "s2", "s3"})]
    /\ selects[Actor][2] =
           [f |-> "sectors", at |-> "read", rows |-> Data({"s1", "s2", "s3", "n1"})]
    /\ cache[Actor]["sectors"] = {"s1", "s2"}
    /\ db.sectors = {"s1", "s2", "s3", "n1"}

\* C29: when the writes have ended, every event is handled and every fetch
\* succeeds, each cached collection of the client is from some moment on equal
\* to what a select of its table returns, and every replacement of a collection
\* calls the listeners registered at that moment.
C29_CacheEventuallyEqualsStore ==
    /\ <>[](\A f \in Collections : cache[Actor][f] = FetchResult(f))
    /\ [][\A f \in Collections :
              cache'[Actor][f] # cache[Actor][f] => invoked'[Actor] = listeners[Actor]]_vars

\* C29 for fetches that do not overlap: either at some moment two fetches of one
\* collection are in flight together, or each cached collection is from some
\* moment on equal to what a select of its table returns; every replacement
\* calls the listeners.
C29_EqualsStoreUnlessFetchesOverlap ==
    /\ \/ <>(\E i, j \in FCalls :
               /\ i < j
               /\ selects[Actor][i].at # "idle" /\ selects[Actor][j].at # "idle"
               /\ selects[Actor][i].f = selects[Actor][j].f)
       \/ <>(\E j \in FCalls, k \in ACalls :
               /\ selects[Actor][j].at # "idle"
               /\ apc[k] = "refetch"
               /\ selects[Actor][j].f = FieldOf(areq[k].op))
       \/ <>[](\A f \in Collections : cache[Actor][f] = FetchResult(f))
    /\ [][\A f \in Collections :
              cache'[Actor][f] # cache[Actor][f] => invoked'[Actor] = listeners[Actor]]_vars

\* Both sectors are in the cache after two fetches that never overlapped, and
\* the second view was called with them.
C29_Witness ==
    /\ db.sectors = {"s1", "s2", "s3", "n1"}
    /\ cache[Actor]["sectors"] = db.sectors
    /\ apc[1] = "done"
    /\ events[Actor] = {}
    /\ \A j \in FCalls : selects[Actor][j].at = "idle"
    /\ Len(listeners[Actor]) = 2
    /\ invoked[Actor] = listeners[Actor]
====
